---- MODULE Spec2Model ----
(***************************************************************************)
(* A model of the zapper front-end (eth-sri/zapper):                       *)
(*   - the ledger (zapper/ledger/ledger.py): the validator of transactions *)
(*     and the owner of the serial set, the seed set, the Merkle tree and  *)
(*     the accepted history;                                               *)
(*   - the runtime (zapper/runtime/runtime.py): call_function and sync;    *)
(*   - the access policy of the assembly pipeline                          *)
(*     (zapper/assembly/functions.py).                                     *)
(*   - Ledger.register_classes over the AssemblyStorage                    *)
(*     (zapper/assembly/assembly_storage.py): add, link, check, inline;    *)
(*   - runtime checks, register allocation and serialization of a function *)
(*     (zapper/compiler/register_allocation.py,                            *)
(*     zapper/runtime/serialized_assembly.py);                             *)
(*   - the passes of inline_new_classes over the Register objects, the     *)
(*     label check and the field locations of a class                      *)
(*     (zapper/assembly/functions.py, zapper/assembly/assembly_class.py);  *)
(*   - the order of the checks of verify_and_execute_transaction.          *)
(* The cryptographic back-end (zapper_backend) is an external library: its *)
(* Merkle tree, verifier and runtime are modelled by their interface.      *)
(***************************************************************************)
EXTENDS Integers, Sequences, FiniteSets, TLC

VARIABLES
    published_serial_numbers,   \* Ledger.published_serial_numbers: Set[str]
    published_unique_seeds,     \* Ledger.published_unique_seeds: Set[str]
    merkle_tree,                \* Ledger.merkle_tree: the leaves, index -> record
    next_record_idx,            \* Ledger.next_record_idx
    accepted_transactions,      \* Ledger.accepted_transactions: List[(serials, records)]
    current_time,               \* Ledger.current_time
    verifier,                   \* Ledger.verifier is not None
    serialized_functions,       \* keys of Ledger.serialized_functions
    backends,                   \* per Runtime: the transactions synced into its back-end
    exec_result,                \* what backend.execute did in the last call_function
    last,                       \* outcome of the last operation (return / raised exception)
    verify_time,                \* time handed to verifier.verify by the last call (0: not called)
    fun,                        \* the AssemblyFunction handed to check_access_policy
    check_result,               \* outcome of check_access_policy on fun
    assembly_storage,           \* Ledger.assembly_storage: AssemblyStorage
    batch,                      \* the classes handed to the last register_classes
    inlined,                    \* the inline_function calls of the last register_classes
    serialized,                 \* the SerializedFunction made of fun
    register_objects            \* the Register objects of each inlined function

ledger_vars == <<published_serial_numbers, published_unique_seeds, merkle_tree,
                 next_record_idx, accepted_transactions>>
config_vars == <<verifier, serialized_functions>>
runtime_vars == <<backends, exec_result>>
assembly_vars == <<fun, check_result, assembly_storage, batch, inlined, serialized, register_objects>>
vars == <<published_serial_numbers, published_unique_seeds, merkle_tree,
          next_record_idx, accepted_transactions, current_time, verifier,
          serialized_functions, backends, exec_result, last, verify_time, fun,
          check_result, assembly_storage, batch, inlined, serialized, register_objects>>

----------------------------------------------------------------------------
(* Bounds of the model *)

\* longest consumed_serials list of a transaction
MaxSerialsPerTx == 2
\* longest new_records list of a transaction
MaxRecordsPerTx == 2
\* how far test_increase_current_time_by may move the clock from its start
MaxTimeShift == 1
\* most serials and most records in one ExecutionResult of the back-end
MaxExecSerials == 1
MaxExecRecords == 1

\* the serials, records and seeds of tests/ledger/test_ledger.py; every accepted
\* transaction publishes a new seed, so the ledger accepts at most two
Serials == {"1", "2"}
Records == {"0acf", "11ce"}
Seeds == {"3cf102a", "101010"}

\* Ledger.__init__: self.current_time = 5555
InitialTime == 5555
Times == InitialTime..(InitialTime + MaxTimeShift)

\* (class_name, function_name): "Class" has the public function f and the
\* private function g; h and class "Other" do not exist
PublicFunctions == {<<"Class", "f">>}
FunctionNames == {<<"Class", "f">>, <<"Class", "g">>, <<"Class", "h">>, <<"Other", "f">>}

SeqsUpTo(S, n) == UNION {[1..k -> S] : k \in 0..n}

Range(s) == {s[i] : i \in DOMAIN s}

\* every list that enumerates the set S once (list(a_set) in Python)
ListsOf(S) == {s \in [1..Cardinality(S) -> S] : Range(s) = S}

----------------------------------------------------------------------------
(* The back-end's Merkle tree (zapper_backend.MerkleTree) *)

EmptyTree == <<>>

\* MerkleTree.insert(i, record): leaf i becomes record
MerkleInsert(tree, i, r) == [j \in (DOMAIN tree) \cup {i} |-> IF j = i THEN r ELSE tree[j]]

\* MerkleTree.get_root(): a binding commitment to the leaves
MerkleRoot(tree) == <<"root", tree>>

\* mutant: next_record_idx is not advanced inside the loop
RECURSIVE InsertRecords_SameIndex(_, _, _)
InsertRecords_SameIndex(tree, idx, records) ==
    IF records = <<>> THEN [tree |-> tree, idx |-> idx]
    ELSE InsertRecords_SameIndex(MerkleInsert(tree, idx, Head(records)), idx, Tail(records))

\* the insert loop of verify_and_execute_transaction: one leaf per record,
\* at next_record_idx, which advances by one each time
RECURSIVE InsertRecords(_, _, _)
InsertRecords(tree, idx, records) ==
    IF records = <<>> THEN [tree |-> tree, idx |-> idx]
    ELSE InsertRecords(MerkleInsert(tree, idx, Head(records)), idx + 1, Tail(records))

----------------------------------------------------------------------------
(* Ledger.verify_and_execute_transaction *)

\* the roots a client may have captured: of the current tree and of its earlier states
KnownRoots ==
    {MerkleRoot([j \in {i \in DOMAIN merkle_tree : i < k} |-> merkle_tree[j]]) :
        k \in 0..Cardinality(DOMAIN merkle_tree)}

\* Transaction (zapper/ledger/transaction.py); the proof is opaque and is
\* represented by the verdict the verifier gives on it
Transactions ==
    [class_function : FunctionNames,
     merkle_tree_root : KnownRoots,
     consumed_serials : SeqsUpTo(Serials, MaxSerialsPerTx),
     new_records : SeqsUpTo(Records, MaxRecordsPerTx),
     unique_seed : Seeds,
     current_time : Times]

\* Verifier.verify returns True, returns False, or raises
Verdicts == {"true", "false", "raise"}

\* add_to_set_check_unique over transaction.consumed_serials: FALSE at the
\* first serial that is already in the set built so far
RECURSIVE SerialsMutuallyDistinct(_, _)
SerialsMutuallyDistinct(serials, seen) ==
    IF serials = <<>> THEN TRUE
    ELSE IF Head(serials) \in seen THEN FALSE
    ELSE SerialsMutuallyDistinct(Tail(serials), seen \cup {Head(serials)})

\* mutant: the intersection with the published serials is not checked
SerialsObservedEarlier_Unchecked(tx) == FALSE

SerialsObservedEarlier(tx) ==
    Range(tx.consumed_serials) \cap published_serial_numbers # {}

\* mutant: the seed is not looked up
SeedObservedEarlier_Unchecked(tx) == FALSE

SeedObservedEarlier(tx) == tx.unique_seed \in published_unique_seeds

\* mutant: the root is not compared
RootMismatch_Unchecked(tx) == FALSE

RootMismatch(tx) == tx.merkle_tree_root # MerkleRoot(merkle_tree)

\* mutant: the timestamp is not compared
TimestampInvalid_Unchecked(tx) == FALSE

TimestampInvalid(tx) == tx.current_time # current_time

\* Ledger.get_serialized_function raises ValueError for a pair that is not registered
FunctionKnown(class_function) == class_function \in serialized_functions

Accepted == [result |-> "accepted", reason |-> "none"]
TxRejected(reason) == [result |-> "TxRejectedException", reason |-> reason]
ValueError(reason) == [result |-> "ValueError", reason |-> reason]

\* the checks with the seed looked up before the serials
VerifyOutcome_SeedBeforeSerials(tx, verdict) ==
    IF SeedObservedEarlier(tx)
        THEN TxRejected("unique_seed has been observed earlier")
    ELSE IF ~SerialsMutuallyDistinct(tx.consumed_serials, {})
        THEN TxRejected("serial numbers of transaction not unique")
    ELSE IF SerialsObservedEarlier(tx)
        THEN TxRejected("at least one serial number of transaction has been observed earlier")
    ELSE IF RootMismatch(tx)
        THEN TxRejected("transaction root does not match current merkle tree root")
    ELSE IF TimestampInvalid(tx)
        THEN TxRejected("timestamp of transaction invalid")
    ELSE IF ~FunctionKnown(tx.class_function)
        THEN ValueError("unknown function or function not public")
    ELSE IF verifier /\ verdict = "raise"
        THEN TxRejected("proof verification raised an error")
    ELSE IF verifier /\ verdict = "false"
        THEN TxRejected("proof verification failed")
    ELSE Accepted

\* the checks of verify_and_execute_transaction in the order of the code;
\* verdict is what the verifier answers if it is asked
VerifyOutcome(tx, verdict) ==
    IF ~SerialsMutuallyDistinct(tx.consumed_serials, {})
        THEN TxRejected("serial numbers of transaction not unique")
    ELSE IF SerialsObservedEarlier(tx)
        THEN TxRejected("at least one serial number of transaction has been observed earlier")
    ELSE IF SeedObservedEarlier(tx)
        THEN TxRejected("unique_seed has been observed earlier")
    ELSE IF RootMismatch(tx)
        THEN TxRejected("transaction root does not match current merkle tree root")
    ELSE IF TimestampInvalid(tx)
        THEN TxRejected("timestamp of transaction invalid")
    ELSE IF ~FunctionKnown(tx.class_function)
        THEN ValueError("unknown function or function not public")
    ELSE IF verifier /\ verdict = "raise"
        THEN TxRejected("proof verification raised an error")
    ELSE IF verifier /\ verdict = "false"
        THEN TxRejected("proof verification failed")
    ELSE Accepted

\* whether the code reaches the call of verifier.verify
VerifierAsked(tx) ==
    verifier /\ VerifyOutcome(tx, "true") = Accepted

\* the state update at the end of verify_and_execute_transaction;
\* order is the list(transaction_serials) that is appended to the history
StateUpdate(tx, order) ==
    LET ins == InsertRecords(merkle_tree, next_record_idx, tx.new_records) IN
    /\ published_serial_numbers' = published_serial_numbers \cup Range(tx.consumed_serials)
    /\ published_unique_seeds' = published_unique_seeds \cup {tx.unique_seed}
    /\ merkle_tree' = ins.tree
    /\ next_record_idx' = ins.idx
    /\ accepted_transactions' = Append(accepted_transactions, <<order, tx.new_records>>)

\* mutant: the seed is published before the proof is verified
verify_and_execute_transaction_SeedFirst(tx, verdict, order) ==
    IF VerifyOutcome(tx, verdict) = Accepted
        THEN StateUpdate(tx, order)
        ELSE /\ published_unique_seeds' =
                    IF VerifierAsked(tx) THEN published_unique_seeds \cup {tx.unique_seed}
                    ELSE published_unique_seeds
             /\ UNCHANGED <<published_serial_numbers, merkle_tree, next_record_idx,
                            accepted_transactions>>

\* the whole handler: the ledger variables after the call
verify_and_execute_transaction(tx, verdict, order) ==
    IF VerifyOutcome(tx, verdict) = Accepted
        THEN StateUpdate(tx, order)
        ELSE UNCHANGED ledger_vars

(* The transactions a client submits.  The handler reads the fields in the *)
(* order serials, seed, root, time, function, and a check that rejects     *)
(* ends the call before the later fields are read.  Of the transactions    *)
(* that differ only in fields the call never reads, one is submitted: the  *)
(* unread fields are those of DefaultTx.                                   *)
DefaultTx ==
    [class_function |-> <<"Class", "f">>,
     merkle_tree_root |-> MerkleRoot(merkle_tree),
     consumed_serials |-> <<>>,
     new_records |-> <<>>,
     unique_seed |-> "3cf102a",
     current_time |-> current_time]

TransactionsOver(roots, times, functions, max_serials, max_records) ==
    LET T1 == {[DefaultTx EXCEPT !.consumed_serials = v] :
                    v \in SeqsUpTo(Serials, max_serials)}
        P1 == {t \in T1 : /\ SerialsMutuallyDistinct(t.consumed_serials, {})
                          /\ ~SerialsObservedEarlier(t)}
        T2 == {[t EXCEPT !.unique_seed = v] : t \in P1, v \in Seeds}
        P2 == {t \in T2 : ~SeedObservedEarlier(t)}
        T3 == {[t EXCEPT !.merkle_tree_root = v] : t \in P2, v \in roots}
        P3 == {t \in T3 : ~RootMismatch(t)}
        T4 == {[t EXCEPT !.current_time = v] : t \in P3, v \in times}
        P4 == {t \in T4 : ~TimestampInvalid(t)}
        T5 == {[t EXCEPT !.class_function = v] : t \in P4, v \in functions}
        P5 == {t \in T5 : FunctionKnown(t.class_function)}
        T6 == {[t EXCEPT !.new_records = v] :
                    t \in P5, v \in SeqsUpTo(Records, max_records)}
    IN  (T1 \ P1) \cup (T2 \ P2) \cup (T3 \ P3) \cup (T4 \ P4) \cup (T5 \ P5) \cup T6

\* handed to the ledger directly: any known root, any time, any function name
SubmittedTransactions ==
    TransactionsOver(KnownRoots, Times, FunctionNames, MaxSerialsPerTx, MaxRecordsPerTx)

NoTx == [class_function |-> <<"none", "none">>]

\* what the caller of an operation observes: the transaction the ledger took
\* in when the call returned, or the kind and message of the exception raised
Result(op, rt, tx, outcome) ==
    [op |-> op, rt |-> rt,
     tx |-> IF outcome.result \in {"accepted", "returned"} THEN tx ELSE NoTx,
     result |-> outcome.result, reason |-> outcome.reason]

\* the time argument of verifier.verify, to_hex_str(self.current_time), when
\* the call of tx reaches the verifier
VerifyTime(tx) == IF VerifierAsked(tx) THEN current_time ELSE 0

Returned == [result |-> "returned", reason |-> "none"]

\* a client hands a transaction to the ledger (tests/ledger/test_ledger.py)
Submit ==
    /\ \E tx \in SubmittedTransactions :
         \E verdict \in (IF VerifierAsked(tx) THEN Verdicts ELSE {"true"}) :
           \E order \in ListsOf(Range(tx.consumed_serials)) :
             /\ verify_and_execute_transaction(tx, verdict, order)
             /\ last' = Result("verify", 0, tx, VerifyOutcome(tx, verdict))
             /\ verify_time' = VerifyTime(tx)
    /\ UNCHANGED <<current_time, config_vars, runtime_vars, assembly_vars>>

\* Ledger.test_increase_current_time_by(amount)
test_increase_current_time_by ==
    /\ \E amount \in (0 - MaxTimeShift)..MaxTimeShift :
         /\ current_time + amount \in Times
         /\ current_time' = current_time + amount
    /\ last' = Result("time", 0, NoTx, Returned)
    /\ UNCHANGED <<verify_time, ledger_vars, config_vars, runtime_vars, assembly_vars>>

----------------------------------------------------------------------------

NoFun == [name |-> "none"]

NoCheck == [result |-> "none", reason |-> "none"]

\* Ledger.__init__, then register_classes of class "Class"
LedgerInit ==
    /\ published_serial_numbers = {}
    /\ published_unique_seeds = {}
    /\ merkle_tree = EmptyTree
    /\ next_record_idx = 0
    /\ accepted_transactions = <<>>
    /\ current_time = InitialTime
    /\ verifier \in BOOLEAN
    /\ serialized_functions = PublicFunctions
    /\ backends = <<>>
    /\ exec_result = "none"
    /\ last = Result("init", 0, NoTx, Returned)
    /\ verify_time = 0

\* AssemblyStorage.__init__
NewStorage ==
    [assembly_classes |-> <<>>, classes_to_check |-> <<>>, class_to_id |-> <<>>,
     next_class_id |-> 0]

\* no function serialized
NoSerialized == [result |-> "none"]

\* no function inlined: no Register objects followed
NoRegisters == <<>>

\* the classes of the storage are followed under SpecStorage only
StorageInit ==
    /\ assembly_storage = NewStorage
    /\ batch = <<>>
    /\ inlined = <<>>
    /\ serialized = NoSerialized
    /\ register_objects = NoRegisters

Init ==
    /\ LedgerInit
    /\ fun = NoFun
    /\ check_result = NoCheck
    /\ StorageInit

Next ==
    \/ Submit
    \/ test_increase_current_time_by

Spec == Init /\ [][Next]_vars

----------------------------------------------------------------------------
(* Runtime (zapper/runtime/runtime.py) over the back-end's runtime         *)
(* (zapper_backend.Runtime)                                                *)

\* the Runtime objects attached to the one ledger
Runtimes == {"runtime_1", "runtime_2"}

\* BackendRuntime(params): nothing synced
NewBackend == <<>>

\* BackendRuntime.get_nof_synced_tx()
NofSyncedTx(backend) == Len(backend)

\* BackendRuntime.sync_tx(i, serials, records): transaction i is added; an
\* index that is already synced is left alone
BackendSyncTx(backend, i, serials, records) ==
    IF i = Len(backend) THEN Append(backend, <<serials, records>>) ELSE backend

\* the root of the back-end's own tree: the records of its synced transactions
BackendRoot(backend) ==
    LET records == [i \in DOMAIN backend |-> backend[i][2]]
        RECURSIVE Concat(_)
        Concat(ss) == IF ss = <<>> THEN <<>> ELSE Head(ss) \o Concat(Tail(ss))
        leaves == Concat(records)
    IN  MerkleRoot([i \in 0..(Len(leaves) - 1) |-> leaves[i + 1]])

\* Runtime.sync: the loop over range(synced, len(accepted_transactions))
RECURSIVE SyncFrom(_, _)
SyncFrom(backend, i) ==
    IF i >= Len(accepted_transactions) THEN backend
    ELSE SyncFrom(BackendSyncTx(backend, i, accepted_transactions[i + 1][1],
                                accepted_transactions[i + 1][2]), i + 1)

RuntimeSync(backend) == SyncFrom(backend, NofSyncedTx(backend))

\* Runtime.__init__: a new back-end, then sync()
NewRuntime(rt) ==
    /\ rt \notin DOMAIN backends
    /\ backends' = (rt :> RuntimeSync(NewBackend)) @@ backends
    /\ exec_result' = "none"
    /\ verify_time' = 0
    /\ last' = Result("new", rt, NoTx, Returned)
    /\ UNCHANGED <<ledger_vars, current_time, config_vars, assembly_vars>>

\* Runtime.sync(), called by the host (eval/scenarios/train_ticket.py)
Sync(rt) ==
    /\ rt \in DOMAIN backends
    /\ backends' = [backends EXCEPT ![rt] = RuntimeSync(@)]
    /\ exec_result' = "none"
    /\ verify_time' = 0
    /\ last' = Result("sync", rt, NoTx, Returned)
    /\ UNCHANGED <<ledger_vars, current_time, config_vars, assembly_vars>>

\* backend.execute raises, or returns an ExecutionResult made against the
\* back-end's own root and the time it was given
ExecutionResults(rt, class_function) ==
    {[status |-> "raise", tx |-> NoTx]}
    \cup {[status |-> "return", tx |-> t] :
            t \in TransactionsOver({BackendRoot(backends[rt])}, {current_time},
                                   {class_function}, MaxExecSerials, MaxExecRecords)}

\* mutant: the exception of backend.execute is swallowed and the call goes on
ExecuteFailed_Ignored(exec) == FALSE

\* the except branch of call_function
ExecuteFailed(exec) == exec.status = "raise"

BackendExecuteException ==
    [result |-> "BackendExecuteException", reason |-> "error while executing instructions"]

\* Transaction.from_execution_result; a swallowed failure leaves an empty result
FromExecutionResult(class_function, exec) ==
    IF exec.status = "return" THEN exec.tx
    ELSE [DefaultTx EXCEPT !.class_function = class_function]

\* Runtime.call_function(class_name, function_name, sender_account, arguments)
CallFunction(rt) ==
    /\ rt \in DOMAIN backends
    /\ \E class_function \in FunctionNames :
         IF ~FunctionKnown(class_function)
         THEN /\ last' = Result("call", rt, NoTx,
                                ValueError("unknown function or function not public"))
              /\ exec_result' = "none"
              /\ verify_time' = 0
              /\ UNCHANGED <<ledger_vars, backends>>
         ELSE \E exec \in ExecutionResults(rt, class_function) :
                IF ExecuteFailed(exec)
                THEN /\ last' = Result("call", rt, NoTx, BackendExecuteException)
                     /\ exec_result' = "raised"
                     /\ verify_time' = 0
                     /\ UNCHANGED <<ledger_vars, backends>>
                ELSE LET tx == FromExecutionResult(class_function, exec) IN
                     \E verdict \in (IF VerifierAsked(tx) THEN Verdicts ELSE {"true"}) :
                       \E order \in ListsOf(Range(tx.consumed_serials)) :
                         /\ verify_and_execute_transaction(tx, verdict, order)
                         /\ backends' =
                              IF VerifyOutcome(tx, verdict) = Accepted
                              THEN [backends EXCEPT ![rt] =
                                      BackendSyncTx(@, NofSyncedTx(@), tx.consumed_serials,
                                                    tx.new_records)]
                              ELSE backends
                         /\ last' = Result("call", rt, tx, VerifyOutcome(tx, verdict))
                         /\ exec_result' = IF exec.status = "raise" THEN "raised" ELSE "returned"
                         /\ verify_time' = VerifyTime(tx)
    /\ UNCHANGED <<current_time, config_vars, assembly_vars>>

NextRuntime ==
    \/ \E rt \in Runtimes : NewRuntime(rt)
    \/ \E rt \in Runtimes : Sync(rt)
    \/ \E rt \in Runtimes : CallFunction(rt)

\* a ledger that verifies proofs (dbg_no_proof=False), no Runtime attached yet
InitRuntime == Init /\ verifier

SpecRuntime == InitRuntime /\ [][NextRuntime]_vars

-----------------------------------------------------------------------------
(* The checks on a function of a new class (zapper/assembly/functions.py,  *)
(* run by AssemblyStorage.check_new_classes)                               *)

\* most instructions in a function under check
MaxInstructions == 4

\* the class the function belongs to, and another class
ThisClass == "C"
OtherClass == "D"

\* AssemblyClass.fields of the class: the implicit owner and one more field
ClassFields == {"owner", "x"}

\* registers by label: "me" is the me_register; "self" is a local of the
\* function's class; "other" and "foreign" are argument registers holding
\* objects of the function's class and of the other class
ArgumentRegisters == {"other", "foreign"}

\* Register.assembly_type
RegisterType(r) ==
    CASE r = "me" -> "address"
      [] r = "self" -> ThisClass
      [] r = "other" -> ThisClass
      [] r = "foreign" -> OtherClass

\* NewInstruction(destination, assembly_class), opcode NEW
NewInstruction(r) ==
    [op |-> "NEW", register |-> r, assembly_class |-> RegisterType(r),
     field |-> "none", field_class |-> "none"]

\* StoreInstruction(source, target_object_id, field), opcode STORE; the source is a well
\* typed value register and takes no part in the checks
\* field f is the AssemblyField of that name declared by class c
StoreInstruction(r, c, f) ==
    [op |-> "STORE", register |-> r, assembly_class |-> "none",
     field |-> f, field_class |-> c]

\* MoveInstruction(destination, source), a WriteInstruction that is not NEW
MoveInstruction(r) ==
    [op |-> "MOV", register |-> r, assembly_class |-> "none",
     field |-> "none", field_class |-> "none"]

Instructions ==
    {NewInstruction("self"), NewInstruction("foreign"),
     StoreInstruction("self", ThisClass, "owner"), StoreInstruction("self", ThisClass, "x"),
     StoreInstruction("other", ThisClass, "owner"),
     StoreInstruction("foreign", OtherClass, "owner"),
     StoreInstruction("self", OtherClass, "x"),
     MoveInstruction("me"), MoveInstruction("other")}

\* the functions under check: the flag is_constructor, the has_address of the
\* function's class, and the well typed instruction lists
Functions ==
    [name : {"f"}, assembly_class : {ThisClass}, is_constructor : BOOLEAN,
     has_address : BOOLEAN, instructions : SeqsUpTo(Instructions, MaxInstructions)]

AssemblySecurityException(reason) ==
    [result |-> "AssemblySecurityException", reason |-> reason]

IndexError == [result |-> "IndexError", reason |-> "list index out of range"]

CheckPassed == [result |-> "passed", reason |-> "none"]

\* isinstance(i, WriteInstruction)
IsWriteInstruction(i) == i.op \in {"NEW", "MOV", "CALL"}

\* check_access_policy without the test of is_private_for
InstructionPolicy_PrivateForUnchecked(f, i) ==
    IF i.op = "STORE" /\ f.assembly_class # RegisterType(i.register)
    THEN AssemblySecurityException("Trying to write to field of class")
    ELSE IF /\ i.op = "CALL"
            /\ i.function.is_private
            /\ i.function.is_private_for = "None"
            /\ f.assembly_class # i.function.assembly_class
    THEN AssemblySecurityException("Trying to call private function")
    ELSE IF i.op = "NEW" /\ f.assembly_class # i.assembly_class
    THEN AssemblySecurityException("Trying to create new object")
    ELSE IF IsWriteInstruction(i) /\ i.register = "me"
    THEN AssemblySecurityException("Trying to overwrite me")
    ELSE IF i.op = "STORE" /\ i.field = "owner" /\ ~f.is_constructor /\ f.has_address
    THEN AssemblySecurityException("Trying to change the owner of a class with an address")
    ELSE CheckPassed

\* the body of the loop of check_access_policy for one instruction, its checks
\* in the order of the code; a linked CALL carries its callee (i.function);
\* the instruction kinds PK and KILL are not modelled
InstructionPolicy(f, i) ==
    IF i.op = "STORE" /\ f.assembly_class # RegisterType(i.register)
    THEN AssemblySecurityException("Trying to write to field of class")
    ELSE IF /\ i.op = "CALL"
            /\ i.function.is_private
            /\ i.function.is_private_for = "None"
            /\ f.assembly_class # i.function.assembly_class
    THEN AssemblySecurityException("Trying to call private function")
    ELSE IF /\ i.op = "CALL"
            /\ i.function.is_private
            /\ i.function.is_private_for # "None"
            /\ f.assembly_class # i.function.is_private_for
    THEN AssemblySecurityException("Trying to call private function, but this is private for")
    ELSE IF i.op = "NEW" /\ f.assembly_class # i.assembly_class
    THEN AssemblySecurityException("Trying to create new object")
    ELSE IF IsWriteInstruction(i) /\ i.register = "me"
    THEN AssemblySecurityException("Trying to overwrite me")
    ELSE IF i.op = "STORE" /\ i.field = "owner" /\ ~f.is_constructor /\ f.has_address
    THEN AssemblySecurityException("Trying to change the owner of a class with an address")
    ELSE CheckPassed

\* AssemblyFunction.check_access_policy: the first instruction that raises
RECURSIVE PolicyFrom(_, _)
PolicyFrom(f, k) ==
    IF k > Len(f.instructions) THEN CheckPassed
    ELSE IF InstructionPolicy(f, f.instructions[k]) # CheckPassed
    THEN InstructionPolicy(f, f.instructions[k])
    ELSE PolicyFrom(f, k + 1)

check_access_policy(f) == PolicyFrom(f, 1)

\* AssemblyFunction._check_all_fields_initialized_for(self_register, instructions)
WrittenFields(self_register, instructions) ==
    {instructions[k].field : k \in {j \in DOMAIN instructions :
        instructions[j].op = "STORE" /\ instructions[j].register = self_register}}

\* AssemblyFunction.check_constructor
check_constructor(f) ==
    IF \E k \in 2..Len(f.instructions) : f.instructions[k].op = "NEW"
    THEN AssemblySecurityException("NEW instruction must be first instruction in instruction list")
    ELSE IF f.instructions = <<>>
    THEN IndexError
    ELSE IF /\ f.instructions[1].op = "NEW"
            /\ ~(ClassFields \subseteq WrittenFields(f.instructions[1].register, f.instructions))
    THEN AssemblySecurityException("Field not initialized in constructor")
    ELSE CheckPassed

\* AssemblyStorage.check_new_classes for the class of f: the types are right
\* and the register labels are distinct, so the access policy and the
\* constructor check decide
CheckOutcome(f) ==
    IF check_access_policy(f) # CheckPassed THEN check_access_policy(f)
    ELSE check_constructor(f)

check_new_classes ==
    /\ fun # NoFun
    /\ check_result = NoCheck
    /\ check_result' = CheckOutcome(fun)
    /\ UNCHANGED <<fun, ledger_vars, current_time, config_vars, runtime_vars,
                   last, verify_time, assembly_storage, batch, inlined, serialized, register_objects>>

\* a class with one function is handed to the check phase
InitAccess ==
    /\ LedgerInit
    /\ verifier
    /\ fun \in Functions
    /\ check_result = NoCheck
    /\ StorageInit

NextAccess == check_new_classes

SpecAccess == InitAccess /\ [][NextAccess]_vars

-----------------------------------------------------------------------------
(* Ledger.register_classes over the AssemblyStorage                        *)
(* (zapper/ledger/ledger.py, zapper/assembly/assembly_storage.py)          *)

\* a register is its label; the registers of one function are distinct objects
\* with distinct labels, and no two functions share a register object

\* MoveInstruction(destination, source): MOV destination source
Move(dst, src) == [op |-> "MOV", register |-> dst, value_1 |-> src]

\* CallInstruction(destination, function, call_arguments, sender_is_self)
Call(dst, function, call_arguments, sender_is_self) ==
    [op |-> "CALL", register |-> dst, function |-> function,
     call_arguments |-> call_arguments, sender_is_self |-> sender_is_self]

\* PublicKeyInstruction(destination, object_id)
PublicKey(dst, src) == [op |-> "PK", register |-> dst, value_1 |-> src]

\* BinaryOperationInstruction(PLUS, reg, reg, Constant(0, Uint))
Plus(dst, src) == [op |-> "PLUS", register |-> dst, value_1 |-> src]

\* CidInstruction(destination, object_id)
Cid(dst, src) == [op |-> "CID", register |-> dst, value_1 |-> src]

\* BinaryOperationInstruction(EQUALS, reg, reg, Constant(expected_cid, Uint))
EqualsConstant(dst, src, c) ==
    [op |-> "EQUALS", register |-> dst, value_1 |-> src, constant |-> c]

\* RequireInstruction(condition): no destination register
Require(condition) == [op |-> "REQ", register |-> "None", value_1 |-> condition]

\* QualifiedReference(qualified_class_name, name), a function not yet linked
QualifiedReference(c, n) == [qualified_class_name |-> c, name |-> n]

IsQualifiedReference(function) == "qualified_class_name" \in DOMAIN function

\* Instruction.get_registers; CallInstruction.get_arguments is the
\* destination and the call arguments
InstructionRegisters(i) ==
    IF i.op = "CALL" THEN <<i.register>> \o i.call_arguments
    ELSE IF i.register = "None" THEN <<i.value_1>>
    ELSE <<i.register, i.value_1>>

\* AssemblyFunction(function_name, instructions, me_register,
\* argument_registers, return_register, is_constructor, is_private,
\* is_private_for) of class c; location holds the slots of its registers (a
\* register without an entry has location -1)
AssemblyFunction(c, n, instructions, argument_registers, argument_types, is_private, is_private_for) ==
    [name |-> n, assembly_class |-> c, instructions |-> instructions,
     runtime_type_check_instructions |-> <<>>,
     me_register |-> "me", argument_registers |-> argument_registers,
     argument_types |-> argument_types, return_register |-> "ret",
     is_constructor |-> FALSE, has_address |-> FALSE,
     is_private |-> is_private, is_private_for |-> is_private_for,
     location |-> <<>>]

\* AssemblyClass.get_function; functions keeps the order of the dict
HasFunction(c, n) == \E k \in DOMAIN c.functions : c.functions[k].name = n

GetFunction(c, n) ==
    c.functions[CHOOSE k \in DOMAIN c.functions : c.functions[k].name = n]

KeyError == [result |-> "KeyError", reason |-> "unknown class or function"]

CycleError ==
    [result |-> "AssertionError", reason |-> "detected cycle in call graph, cannot inline"]

\* add_class without the test for a class of the same name
add_class_NoCollisionCheck(storage, c) ==
    [storage |->
        [assembly_classes |->
            (c.qualified_name :> [c EXCEPT !.class_id = storage.next_class_id])
                @@ storage.assembly_classes,
         classes_to_check |-> Append(storage.classes_to_check, c.qualified_name),
         class_to_id |->
            (c.qualified_name :> storage.next_class_id) @@ storage.class_to_id,
         next_class_id |-> storage.next_class_id + 1],
      result |-> CheckPassed]

\* add_class that does not advance _next_class_id
add_class_IdNotFresh(storage, c) ==
    IF c.qualified_name \in DOMAIN storage.assembly_classes
    THEN [storage |-> storage,
          result |-> AssemblySecurityException("Tried adding class twice")]
    ELSE IF "owner" \notin DOMAIN c.fields
    THEN [storage |-> storage,
          result |-> AssemblySecurityException("Class does not define an owner field")]
    ELSE IF c.fields["owner"].field_type # "address"
    THEN [storage |-> storage,
          result |-> AssemblySecurityException("Field owner does not have address type")]
    ELSE IF c.fields["owner"].location # 0
    THEN [storage |-> storage,
          result |-> AssemblySecurityException("Field owner is not at location 0")]
    ELSE [storage |->
            [assembly_classes |->
                (c.qualified_name :> [c EXCEPT !.class_id = storage.next_class_id])
                    @@ storage.assembly_classes,
             classes_to_check |-> Append(storage.classes_to_check, c.qualified_name),
             class_to_id |->
                (c.qualified_name :> storage.next_class_id) @@ storage.class_to_id,
             next_class_id |-> storage.next_class_id],
          result |-> CheckPassed]

\* AssemblyStorage.add_class
add_class(storage, c) ==
    IF c.qualified_name \in DOMAIN storage.assembly_classes
    THEN [storage |-> storage,
          result |-> AssemblySecurityException("Tried adding class twice")]
    ELSE IF "owner" \notin DOMAIN c.fields
    THEN [storage |-> storage,
          result |-> AssemblySecurityException("Class does not define an owner field")]
    ELSE IF c.fields["owner"].field_type # "address"
    THEN [storage |-> storage,
          result |-> AssemblySecurityException("Field owner does not have address type")]
    ELSE IF c.fields["owner"].location # 0
    THEN [storage |-> storage,
          result |-> AssemblySecurityException("Field owner is not at location 0")]
    ELSE [storage |->
            [assembly_classes |->
                (c.qualified_name :> [c EXCEPT !.class_id = storage.next_class_id])
                    @@ storage.assembly_classes,
             classes_to_check |-> Append(storage.classes_to_check, c.qualified_name),
             class_to_id |->
                (c.qualified_name :> storage.next_class_id) @@ storage.class_to_id,
             next_class_id |-> storage.next_class_id + 1],
          result |-> CheckPassed]

\* the loop "for c in classes: add_class(c)"; the first exception ends it
RECURSIVE AddClasses(_, _)
AddClasses(storage, classes) ==
    IF classes = <<>> THEN [storage |-> storage, result |-> CheckPassed]
    ELSE LET added == add_class(storage, Head(classes)) IN
         IF added.result # CheckPassed THEN added
         ELSE AddClasses(added.storage, Tail(classes))

\* the functions of the classes in classes_to_check, in the order the loops
\* "for c in self.classes_to_check" and "for f in c.functions.values()" meet
\* them, each as <<class name, position in c.functions>>
RECURSIVE FunctionsOf(_, _)
FunctionsOf(storage, names) ==
    IF names = <<>> THEN <<>>
    ELSE [k \in DOMAIN storage.assembly_classes[Head(names)].functions |->
            <<Head(names), k>>] \o FunctionsOf(storage, Tail(names))

PendingFunctions(storage) == FunctionsOf(storage, storage.classes_to_check)

\* the first result of a list that is an exception
RECURSIVE FirstFailure(_)
FirstFailure(results) ==
    IF results = <<>> THEN CheckPassed
    ELSE IF Head(results) # CheckPassed THEN Head(results)
    ELSE FirstFailure(Tail(results))

\* AssemblyFunction.link for the instructions from position k on: a CALL by
\* QualifiedReference gets the function of the storage; an unknown class or
\* function is a KeyError and the instructions before it stay linked
RECURSIVE LinkInstructions(_, _, _)
LinkInstructions(storage, instructions, k) ==
    IF k > Len(instructions)
    THEN [instructions |-> instructions, result |-> CheckPassed]
    ELSE LET i == instructions[k] IN
         IF i.op = "CALL" /\ IsQualifiedReference(i.function)
         THEN LET c == i.function.qualified_class_name
                  n == i.function.name
              IN  IF \/ c \notin DOMAIN storage.assembly_classes
                     \/ ~HasFunction(storage.assembly_classes[c], n)
                  THEN [instructions |-> instructions, result |-> KeyError]
                  ELSE LET callee == GetFunction(storage.assembly_classes[c], n)
                           function == [assembly_class |-> c, name |-> n,
                                        is_private |-> callee.is_private,
                                        is_private_for |-> callee.is_private_for]
                       IN  LinkInstructions(storage,
                               [instructions EXCEPT ![k].function = function], k + 1)
         ELSE LinkInstructions(storage, instructions, k + 1)

RECURSIVE LinkFunctions(_, _)
LinkFunctions(storage, todo) ==
    IF todo = <<>> THEN [storage |-> storage, result |-> CheckPassed]
    ELSE LET c == Head(todo)[1]
             k == Head(todo)[2]
             linked == LinkInstructions(storage,
                           storage.assembly_classes[c].functions[k].instructions, 1)
             after == [storage EXCEPT
                         !.assembly_classes[c].functions[k].instructions =
                             linked.instructions]
         IN  IF linked.result # CheckPassed
             THEN [storage |-> after, result |-> linked.result]
             ELSE LinkFunctions(after, Tail(todo))

\* AssemblyStorage.link_new_classes
link_new_classes(storage) == LinkFunctions(storage, PendingFunctions(storage))

\* the body of the loop of check_new_classes for class c: the types are right
\* and the labels distinct; check_access_policy of every function, then
\* check_constructor of every function
ClassCheck(c) ==
    FirstFailure([k \in DOMAIN c.functions |-> check_access_policy(c.functions[k])]
                 \o [k \in DOMAIN c.functions |-> check_constructor(c.functions[k])])

\* AssemblyStorage.check_new_classes
StorageCheck(storage) ==
    FirstFailure([k \in DOMAIN storage.classes_to_check |->
                    ClassCheck(storage.assembly_classes[storage.classes_to_check[k]])])

\* Register.clone(postfix)
CloneRegister(r, postfix) == r \o "#" \o postfix

\* Instruction.get_inlined_equivalent: the attributes that are registers are
\* replaced by their clones, every other attribute is shared
CloneInstruction(i, postfix) ==
    IF i.register = "None"
    THEN [i EXCEPT !.value_1 = CloneRegister(@, postfix)]
    ELSE IF i.op = "CALL"
    THEN [i EXCEPT !.register = CloneRegister(@, postfix)]
    ELSE [i EXCEPT !.register = CloneRegister(@, postfix),
                   !.value_1 = CloneRegister(@, postfix)]

\* AssemblyFunction.clone_for_inlining(register_postfix)
clone_for_inlining(f, postfix) ==
    [f EXCEPT !.me_register = CloneRegister(@, postfix),
              !.argument_registers =
                  [k \in DOMAIN f.argument_registers |->
                      CloneRegister(f.argument_registers[k], postfix)],
              !.return_register = CloneRegister(@, postfix),
              !.instructions =
                  [k \in DOMAIN f.instructions |->
                      CloneInstruction(f.instructions[k], postfix)],
              !.runtime_type_check_instructions = <<>>,
              !.location = <<>>]

\* the parameters bound to the call arguments in reverse order
ParameterMoves_Reversed(parameters, arguments) ==
    [k \in 1..(IF Len(parameters) < Len(arguments) THEN Len(parameters)
                ELSE Len(arguments)) |->
        Move(parameters[k], arguments[Len(arguments) + 1 - k])]

\* zip(called_function.argument_registers, instruction.call_arguments)
ParameterMoves(parameters, arguments) ==
    [k \in 1..(IF Len(parameters) < Len(arguments) THEN Len(parameters)
                ELSE Len(arguments)) |-> Move(parameters[k], arguments[k])]

\* what the loop of inline puts in place of instruction number k (from 1; the
\* code counts from 0)
InlinedCall(storage, f, k) ==
    LET instruction == f.instructions[k]
        called_function_inlined ==
            GetFunction(storage.assembly_classes[instruction.function.assembly_class],
                        instruction.function.name)
        called_function ==
            clone_for_inlining(called_function_inlined, "inlined#" \o ToString(k - 1))
    IN  <<IF instruction.sender_is_self
          THEN PublicKey(called_function.me_register, f.argument_registers[1])
          ELSE Move(called_function.me_register, f.me_register)>>
        \o ParameterMoves(called_function.argument_registers, instruction.call_arguments)
        \o called_function.instructions
        \o <<Move(instruction.register, called_function.return_register)>>

RECURSIVE InlineFrom(_, _, _)
InlineFrom(storage, f, k) ==
    IF k > Len(f.instructions) THEN <<>>
    ELSE (IF f.instructions[k].op = "CALL" THEN InlinedCall(storage, f, k)
          ELSE <<f.instructions[k]>>) \o InlineFrom(storage, f, k + 1)

\* AssemblyFunction.inline: a new function over the same me, argument and
\* return registers, without runtime checks
inline(storage, f) ==
    [f EXCEPT !.instructions = InlineFrom(storage, f, 1),
              !.runtime_type_check_instructions = <<>>]

\* a function that reports no callee
get_called_function_names_Empty(f) == {}

\* AssemblyFunction.get_called_function_names
get_called_function_names(f) ==
    {<<f.instructions[k].function.assembly_class, f.instructions[k].function.name>> :
        k \in {j \in DOMAIN f.instructions : f.instructions[j].op = "CALL"}}

\* a call graph without edges: the functions are inlined in the order of the
\* dict whatever they call
CallGraph_NoEdges(storage) ==
    LET todo == PendingFunctions(storage) IN
    [k \in DOMAIN todo |-> [at |-> todo[k], callees |-> {}]]

\* remaining_callgraph as the list of its items in the order of the dict: the
\* callees of a function that belong to a class in classes_to_check
CallGraph(storage) ==
    LET todo == PendingFunctions(storage) IN
    [k \in DOMAIN todo |->
        [at |-> todo[k],
         callees |->
            {t \in get_called_function_names(
                      storage.assembly_classes[todo[k][1]].functions[todo[k][2]]) :
                \E j \in DOMAIN storage.classes_to_check :
                    storage.classes_to_check[j] = t[1]}]]

\* the sequence without its element number k
Without(seq, k) == SubSeq(seq, 1, k - 1) \o SubSeq(seq, k + 1, Len(seq))

\* the while loop of inline_new_classes: the first function of the remaining
\* call graph without remaining callees is inlined and taken out of the graph;
\* when there is none the call graph has a cycle
RECURSIVE InlineLoop(_, _, _)
InlineLoop(storage, remaining, done) ==
    IF remaining = <<>>
    THEN [storage |-> storage, inlined |-> done, result |-> CheckPassed]
    ELSE IF \A k \in DOMAIN remaining : remaining[k].callees # {}
    THEN [storage |-> storage, inlined |-> done, result |-> CycleError]
    ELSE LET k == CHOOSE j \in DOMAIN remaining :
                    /\ remaining[j].callees = {}
                    /\ \A h \in 1..(j - 1) : remaining[h].callees # {}
             c == remaining[k].at[1]
             n == remaining[k].at[2]
             name == storage.assembly_classes[c].functions[n].name
             after == [storage EXCEPT !.assembly_classes[c].functions[n] =
                           inline(storage, @)]
             pruned == [j \in DOMAIN remaining |->
                           [remaining[j] EXCEPT !.callees = @ \ {<<c, name>>}]]
         IN  InlineLoop(after, Without(pruned, k), Append(done, <<c, name>>))

\* AssemblyStorage.inline_new_classes
inline_new_classes(storage) == InlineLoop(storage, CallGraph(storage), <<>>)

\* the runtime checks of the argument registers from number k on; i counts
\* the cid-check registers made so far
RECURSIVE RuntimeChecksFrom(_, _, _, _)
RuntimeChecksFrom(f, class_to_id, k, i) ==
    IF k > Len(f.argument_registers) THEN <<>>
    ELSE LET reg == f.argument_registers[k]
             type == f.argument_types[k]
             cid_register == "cid-check-" \o ToString(i)
         IN  IF type = "uint"
             THEN <<Plus(reg, reg)>> \o RuntimeChecksFrom(f, class_to_id, k + 1, i)
             ELSE IF type \in {"address", "long"}
             THEN RuntimeChecksFrom(f, class_to_id, k + 1, i)
             ELSE <<Cid(cid_register, reg),
                    EqualsConstant(cid_register, cid_register, class_to_id[type]),
                    Require(cid_register)>>
                  \o RuntimeChecksFrom(f, class_to_id, k + 1, i + 1)

\* insert_runtime_checks that leaves out the first argument register
insert_runtime_checks_FromSecond(f, class_to_id) ==
    [f EXCEPT !.runtime_type_check_instructions =
                  RuntimeChecksFrom(f, class_to_id, 2, 0)]

\* AssemblyFunction.insert_runtime_checks
insert_runtime_checks(f, class_to_id) ==
    [f EXCEPT !.runtime_type_check_instructions =
                  RuntimeChecksFrom(f, class_to_id, 1, 0)]

\* AssemblyFunction.get_all_instructions
get_all_instructions(f) == f.runtime_type_check_instructions \o f.instructions

\* Register.location: -1 until a slot is assigned
Location(location, r) == IF r \in DOMAIN location THEN location[r] ELSE -1

\* register.location = slot
SetLocation(location, r, slot) ==
    [x \in DOMAIN location \cup {r} |-> IF x = r THEN slot ELSE location[x]]

\* RegisterAllocation.__init__: no free slot, no slot handed out
NewAllocation(location) == [location |-> location, free_registers |-> {}, n_registers |-> 0]

\* RegisterAllocation._next_free_register: free_registers.pop() takes an
\* arbitrary element of the set, so every free slot is a possible outcome;
\* with no free slot the counter is handed out
NextFreeRegister(a) ==
    IF a.free_registers = {}
    THEN {[slot |-> a.n_registers, allocation |-> [a EXCEPT !.n_registers = @ + 1]]}
    ELSE {[slot |-> slot, allocation |-> [a EXCEPT !.free_registers = @ \ {slot}]] :
            slot \in a.free_registers}

\* the allocations after register r got a slot; with always = FALSE only a
\* register whose location is -1 gets one
AllocateRegister(allocations, r, always) ==
    UNION {IF ~always /\ Location(a.location, r) # -1 THEN {a}
           ELSE {[next.allocation EXCEPT !.location = SetLocation(@, r, next.slot)] :
                    next \in NextFreeRegister(a)} :
           a \in allocations}

RECURSIVE AllocateRegisters(_, _, _)
AllocateRegisters(allocations, registers, always) ==
    IF registers = <<>> THEN allocations
    ELSE AllocateRegisters(AllocateRegister(allocations, Head(registers), always),
                           Tail(registers), always)

\* last_used[register]: the position of the last instruction that names it
LastUsed(instructions, r) ==
    CHOOSE k \in DOMAIN instructions :
        /\ \E j \in DOMAIN InstructionRegisters(instructions[k]) :
              InstructionRegisters(instructions[k])[j] = r
        /\ \A h \in (k + 1)..Len(instructions) :
              \A j \in DOMAIN InstructionRegisters(instructions[h]) :
                  InstructionRegisters(instructions[h])[j] # r

\* the second inner loop of run: the slots of the registers whose last use is
\* instruction k go to the free set
ReleaseRegisters(a, instructions, k) ==
    [a EXCEPT !.free_registers =
        @ \cup {a.location[r] : r \in {x \in Range(InstructionRegisters(instructions[k])) :
                                          LastUsed(instructions, x) = k}}]

RECURSIVE AllocateInstructions(_, _, _)
AllocateInstructions(allocations, instructions, k) ==
    IF k > Len(instructions) THEN allocations
    ELSE AllocateInstructions(
            {ReleaseRegisters(a, instructions, k) :
                a \in AllocateRegisters(allocations,
                                        InstructionRegisters(instructions[k]), FALSE)},
            instructions, k + 1)

\* a run that walks the instructions before it gives me and the arguments
\* their slots
RegisterAllocations_BodyFirst(f) ==
    LET body == AllocateInstructions({NewAllocation(f.location)}, get_all_instructions(f), 1)
    IN  {a.location : a \in AllocateRegisters(body,
                                <<f.me_register>> \o f.argument_registers, TRUE)}

\* RegisterAllocation.run(function): the location of every register of the
\* function after the run, one map for each way the pops can fall
RegisterAllocations(f) ==
    LET signature == AllocateRegisters({NewAllocation(f.location)},
                         <<f.me_register>> \o f.argument_registers, TRUE)
    IN  {a.location : a \in AllocateInstructions(signature, get_all_instructions(f), 1)}

\* the first two steps of run: me gets slot 0 and the arguments the slots
\* after it, whatever the pops of the later steps return
SignatureLocation(f) ==
    (CHOOSE a \in AllocateRegisters({NewAllocation(f.location)},
                      <<f.me_register>> \o f.argument_registers, TRUE) : TRUE).location

\* the field names in the order of sorted() (by code point, capitals before
\* small letters), owner moved to the front
FieldOrder == <<"owner", "X", "a", "x">>

\* AssemblyClass.set_field_locations
set_field_locations(c) ==
    [c EXCEPT !.fields =
        [name \in DOMAIN c.fields |->
            [c.fields[name] EXCEPT !.location =
                Cardinality({k \in DOMAIN FieldOrder :
                    /\ FieldOrder[k] \in DOMAIN c.fields
                    /\ k < (CHOOSE j \in DOMAIN FieldOrder : FieldOrder[j] = name)})]]]

\* insert_runtime_checks_for_new_classes, allocation_for_new_classes and
\* reset_new_classes; of the slots the storage state keeps those of me and of
\* the arguments (RegisterAllocations has the others)
RECURSIVE FinishClasses(_, _)
FinishClasses(storage, names) ==
    IF names = <<>> THEN [storage EXCEPT !.classes_to_check = <<>>]
    ELSE LET c == storage.assembly_classes[Head(names)]
             checked == [k \in DOMAIN c.functions |->
                            insert_runtime_checks(c.functions[k], storage.class_to_id)]
             allocated == [k \in DOMAIN checked |->
                              [checked[k] EXCEPT !.location = SignatureLocation(checked[k])]]
             finished == [set_field_locations(c) EXCEPT !.functions = allocated]
         IN  FinishClasses([storage EXCEPT !.assembly_classes[Head(names)] = finished],
                           Tail(names))

\* the keys register_classes adds to serialized_functions: the functions of
\* the classes of the call that are not private
RECURSIVE SerializedKeys(_)
SerializedKeys(classes) ==
    IF classes = <<>> THEN {}
    ELSE {<<Head(classes).qualified_name, Head(classes).functions[k].name>> :
            k \in {j \in DOMAIN Head(classes).functions :
                      ~Head(classes).functions[j].is_private}}
         \cup SerializedKeys(Tail(classes))

\* Ledger.register_classes(classes): the phases in turn; an exception ends the
\* call and leaves the storage as the phases before it made it
RegisterOutcome(storage, classes) ==
    LET added == AddClasses(storage, classes)
        linked == link_new_classes(added.storage)
        checked == StorageCheck(linked.storage)
        inlining == inline_new_classes(linked.storage)
    IN  IF added.result # CheckPassed
        THEN [storage |-> added.storage, inlined |-> <<>>, result |-> added.result]
        ELSE IF linked.result # CheckPassed
        THEN [storage |-> linked.storage, inlined |-> <<>>, result |-> linked.result]
        ELSE IF checked # CheckPassed
        THEN [storage |-> linked.storage, inlined |-> <<>>, result |-> checked]
        ELSE IF inlining.result # CheckPassed
        THEN inlining
        ELSE [storage |-> FinishClasses(inlining.storage, inlining.storage.classes_to_check),
              inlined |-> inlining.inlined, result |-> Returned]

\* AssemblyClass(qualified_name, has_address, fields, functions)
AssemblyClass(name, fields, functions) ==
    [qualified_name |-> name, has_address |-> FALSE, fields |-> fields,
     functions |-> functions, class_id |-> "None"]

AssemblyField(field_type, location) == [field_type |-> field_type, location |-> location]

\* the fields of a class that add_class takes, and of three it refuses
GoodFields == ("owner" :> AssemblyField("address", 0)) @@ ("x" :> AssemblyField("uint", 1))
FieldsWithoutOwner == ("x" :> AssemblyField("uint", 0))
FieldsOwnerNotAddress == ("owner" :> AssemblyField("uint", 0))
FieldsOwnerNotFirst == ("owner" :> AssemblyField("address", 1)) @@ ("x" :> AssemblyField("uint", 0))

\* function bodies: one without a call, and calls by qualified name
PlainBody == <<Move("ret", "a")>>
CallBody(c, n) == <<Call("ret", QualifiedReference(c, n), <<"a">>, FALSE)>>

\* a function with one Uint argument
Function(c, n, body, visibility) ==
    AssemblyFunction(c, n, body, <<"a">>, <<"uint">>,
                     visibility # "public",
                     IF visibility \in {"public", "private"} THEN "None" ELSE visibility)

\* class A with the functions f (public) and g, and class B with the function g
ClassA(f_body, g_body, visibility) ==
    AssemblyClass("A", GoodFields,
        <<Function("A", "f", f_body, "public"), Function("A", "g", g_body, visibility)>>)

ClassB(fields, g_body, visibility) ==
    AssemblyClass("B", fields, <<Function("B", "g", g_body, visibility)>>)

\* the classes A that call into class B
CallingClassesA ==
    {ClassA(CallBody("B", "g"), PlainBody, "public"),
     ClassA(CallBody("A", "g"), CallBody("B", "g"), "public"),
     ClassA(CallBody("A", "g") \o CallBody("B", "g"), PlainBody, "public")}

ClassesA ==
    CallingClassesA \cup
    {ClassA(PlainBody, PlainBody, "public"),
     ClassA(CallBody("A", "g"), PlainBody, "private"),
     ClassA(CallBody("A", "g"), PlainBody, "B"),
     ClassA(CallBody("A", "f"), PlainBody, "public")}

ClassesB ==
    {ClassB(GoodFields, PlainBody, visibility) : visibility \in {"public", "private", "A"}}
    \cup {ClassB(GoodFields, CallBody("A", "f"), "public"),
          ClassB(GoodFields, CallBody("B", "g"), "public")}

\* classes that add_class refuses
RefusedClasses ==
    {ClassB(fields, PlainBody, "public") :
        fields \in {FieldsWithoutOwner, FieldsOwnerNotAddress, FieldsOwnerNotFirst}}

\* the lists of classes of one call
Batches ==
    {<<c>> : c \in ClassesA \cup ClassesB \cup RefusedClasses}
    \cup {<<a, b>> : a \in CallingClassesA, b \in ClassesB}
    \cup {<<b, ClassA(CallBody("B", "g"), PlainBody, "public")>> :
            b \in {ClassB(GoodFields, PlainBody, "public"),
                   ClassB(GoodFields, CallBody("A", "f"), "public")}}
    \cup {<<ClassA(PlainBody, PlainBody, "public"),
            ClassB(FieldsWithoutOwner, PlainBody, "public")>>,
          <<ClassB(GoodFields, PlainBody, "public"),
            ClassB(GoodFields, PlainBody, "public")>>}

register_classes ==
    \E classes \in Batches :
        LET outcome == RegisterOutcome(assembly_storage, classes) IN
        /\ assembly_storage' = outcome.storage
        /\ inlined' = outcome.inlined
        /\ batch' = classes
        /\ serialized_functions' =
             IF outcome.result = Returned
             THEN serialized_functions \cup SerializedKeys(classes)
             ELSE serialized_functions
        /\ last' = Result("register_classes", 0, NoTx, outcome.result)
        /\ UNCHANGED <<ledger_vars, current_time, verifier, runtime_vars, verify_time,
                       fun, check_result, serialized, register_objects>>

\* Ledger.__init__: an empty storage and an empty registry
InitStorage ==
    /\ published_serial_numbers = {}
    /\ published_unique_seeds = {}
    /\ merkle_tree = EmptyTree
    /\ next_record_idx = 0
    /\ accepted_transactions = <<>>
    /\ current_time = InitialTime
    /\ verifier = TRUE
    /\ serialized_functions = {}
    /\ backends = <<>>
    /\ exec_result = "none"
    /\ last = Result("init", 0, NoTx, Returned)
    /\ verify_time = 0
    /\ fun = NoFun
    /\ check_result = NoCheck
    /\ StorageInit

NextStorage == register_classes

SpecStorage == InitStorage /\ [][NextStorage]_vars

----------------------------------------------------------------------------
(* Runtime checks, register allocation and serialization of one function *)

\* most argument registers of a function
MaxArguments == 9

\* most argument registers of a function with arguments of several types
MaxMixedArguments == 5

\* the register count the back-end allows a function
RegisterBudget == 10

\* Instruction.opcode
Opcode(op) ==
    CASE op = "MOV" -> 1
      [] op = "REQ" -> 3
      [] op = "PK" -> 7
      [] op = "CID" -> 9
      [] op = "PLUS" -> 12
      [] op = "EQUALS" -> 15

\* serialize_instruction: the destination, the first source (a register in
\* every modelled instruction) and the second source (a constant or None)
serialize_instruction(f, i) ==
    [opcode |-> Opcode(i.op),
     dst |-> IF i.register = "None" THEN 0 ELSE Location(f.location, i.register),
     src_1 |-> Location(f.location, i.value_1),
     src_1_is_const |-> FALSE,
     src_2 |-> IF i.op = "EQUALS" THEN i.constant ELSE 0,
     src_2_is_const |-> i.op \in {"PLUS", "EQUALS"}]

SerializeAssertionError == [result |-> "AssertionError"]

\* SerializedFunction(class_id, function_id, assembly_function): the asserts
\* of SerializedFunction.__init__, serialize_instruction and
\* SerializedInstruction.__init__
SerializedFunction(f) ==
    LET instructions == [k \in DOMAIN get_all_instructions(f) |->
                            IF get_all_instructions(f)[k].op = "CALL"
                            THEN SerializeAssertionError
                            ELSE serialize_instruction(f, get_all_instructions(f)[k])]
    IN  IF Location(f.location, f.return_register) < 0
        THEN SerializeAssertionError
        ELSE IF \E k \in DOMAIN instructions :
                    \/ instructions[k] = SerializeAssertionError
                    \/ instructions[k].opcode < 0
                    \/ instructions[k].dst < 0
                    \/ instructions[k].src_1 < 0
                    \/ instructions[k].src_2 < 0
        THEN SerializeAssertionError
        ELSE [result |-> "returned",
              return_register |-> Location(f.location, f.return_register),
              instructions |-> instructions]

\* the storage that holds class B, whose g the inlined bodies come from
StorageWithB ==
    RegisterOutcome(NewStorage, <<ClassB(GoodFields, PlainBody, "public")>>).storage

\* the argument registers a1, a2, ... of a function with n arguments
ArgumentRegistersOf(n) == [k \in 1..n |-> "a" \o ToString(k)]

\* the argument types: all Uint, all Address, an object of class B first, or
\* objects of class B among Uint, Long and Address arguments
ArgumentTypesOf(n, kind) ==
    [k \in 1..n |->
        CASE kind = "object" -> (IF k = 1 THEN "B" ELSE "address")
          [] kind = "mixed" -> <<"address", "B", "uint", "long", "B">>[(k % 5) + 1]
          [] OTHER -> kind]

\* the bodies: the return register written from a register, written through
\* a temporary register, not written at all, written before the last
\* instruction, written from two registers it is the last to read, and
\* written by a call of B.g
BodyOf(n, body) ==
    LET first == IF n = 0 THEN "me" ELSE "a1"
        other == IF n < 8 THEN first ELSE "a8"
    IN
    CASE body = "move" -> <<Move("ret", first)>>
      [] body = "temporary" -> <<Move("t", first), Move("ret", "t")>>
      [] body = "no return" -> <<Move("t", first)>>
      [] body = "return first" -> <<Move("ret", first), Move("t", first)>>
      [] body = "release two" -> <<Move("ret", first), Move("ret", other), Move("t", "ret")>>
      [] body = "call" -> <<Call("ret", QualifiedReference("B", "g"), <<first>>, FALSE)>>

\* a function of class A as link_new_classes and inline_new_classes leave it
AllocFunction(n, kind, body) ==
    LET f == AssemblyFunction("A", "f", BodyOf(n, body), ArgumentRegistersOf(n),
                              ArgumentTypesOf(n, kind), FALSE, "None")
        linked == LinkInstructions(StorageWithB, f.instructions, 1).instructions
    IN  inline(StorageWithB, [f EXCEPT !.instructions = linked])

AllocFunctions ==
    {AllocFunction(n, kind, body) :
        n \in 0..MaxArguments,
        kind \in {"uint", "address", "object"},
        body \in {"move", "temporary", "no return", "return first", "release two", "call"}}
    \cup {AllocFunction(n, "mixed", body) :
            n \in 1..MaxMixedArguments,
            body \in {"move", "temporary", "call"}}

\* AssemblyStorage.insert_runtime_checks_for_new_classes for the class of fun
insert_runtime_checks_for_new_classes ==
    /\ fun # NoFun
    /\ check_result = NoCheck
    /\ fun' = insert_runtime_checks(fun, assembly_storage.class_to_id)
    /\ check_result' = [result |-> "runtime checks", reason |-> "none"]
    /\ UNCHANGED <<ledger_vars, current_time, config_vars, runtime_vars, last,
                   verify_time, assembly_storage, batch, inlined, serialized, register_objects>>

\* AssemblyStorage.allocation_for_new_classes for the class of fun: one of
\* the allocations the pops of RegisterAllocation.run can produce
allocation_for_new_classes ==
    /\ check_result.result = "runtime checks"
    /\ \E location \in RegisterAllocations(fun) :
          fun' = [fun EXCEPT !.location = location]
    /\ check_result' = [result |-> "allocated", reason |-> "none"]
    /\ UNCHANGED <<ledger_vars, current_time, config_vars, runtime_vars, last,
                   verify_time, assembly_storage, batch, inlined, serialized, register_objects>>

\* the loop of Ledger.register_classes that serializes the public functions
serialize_function ==
    /\ check_result.result = "allocated"
    /\ serialized' = SerializedFunction(fun)
    /\ check_result' = [result |-> "serialized", reason |-> "none"]
    /\ UNCHANGED <<fun, ledger_vars, current_time, config_vars, runtime_vars, last,
                   verify_time, assembly_storage, batch, inlined, register_objects>>

\* a function of a new class A after inlining; class B is in the storage
InitAlloc ==
    /\ LedgerInit
    /\ verifier
    /\ fun \in AllocFunctions
    /\ check_result = NoCheck
    /\ assembly_storage = StorageWithB
    /\ batch = <<>>
    /\ inlined = <<>>
    /\ serialized = NoSerialized
    /\ register_objects = NoRegisters

NextAlloc ==
    \/ insert_runtime_checks_for_new_classes
    \/ allocation_for_new_classes
    \/ serialize_function

SpecAlloc == InitAlloc /\ [][NextAlloc]_vars

----------------------------------------------------------------------------
(* AssemblyStorage.inline_new_classes, one pass of its loop at a time, over *)
(* the Register objects of the functions                                    *)

\* most calls in the body of the calling function
MaxCalls == 2

\* the labels of the caller's local register: nothing keeps a label handed to
\* Register(label) free of '#'
LocalLabels == {"x", "ret#inlined#1", "ret#inlined#4"}

\* Instruction.get_registers as a set, for every kind of instruction
RegistersOf(i) ==
    IF i.op \in {"NEW", "STORE"} THEN {i.register}
    ELSE {r \in Range(InstructionRegisters(i)) : r # "None"}

\* the Register objects of a function before inlining: those of its
\* instructions and me (get_registers) and of its signature, one object for
\* each label (check_register_labels)
OwnRegisters(f) ==
    {[label |-> l, object |-> l] :
        l \in {f.me_register, f.return_register} \cup Range(f.argument_registers)
              \cup UNION {RegistersOf(f.instructions[k]) : k \in DOMAIN f.instructions}}

\* Register.clone(postfix) of a Register object: Register(label + '#' + postfix)
\* is a new object; the mapping of clone_for_inlining holds one clone for each
\* object of the called function
CloneObject(r, postfix) ==
    [label |-> CloneRegister(r.label, postfix), object |-> postfix \o "/" \o r.object]

\* the Register objects of inline(f): those of f and, for the CALL at position
\* k (from 1), the clones "inlined#(k - 1)" of the objects of the called
\* function as the storage has it
InlinedRegisters(storage, objects, f) ==
    OwnRegisters(f) \cup
    UNION {{CloneObject(r, "inlined#" \o ToString(k - 1)) :
               r \in objects[<<f.instructions[k].function.assembly_class,
                               f.instructions[k].function.name>>]} :
           k \in {j \in DOMAIN f.instructions : f.instructions[j].op = "CALL"}}

\* AssemblyFunction.inline with its exception: self.argument_registers[0] of a
\* function without argument registers
InlineOutcome(storage, f) ==
    IF /\ f.argument_registers = <<>>
       /\ \E k \in DOMAIN f.instructions :
             f.instructions[k].op = "CALL" /\ f.instructions[k].sender_is_self
    THEN [function |-> f, result |-> IndexError]
    ELSE [function |-> inline(storage, f), result |-> CheckPassed]

\* remaining_callgraph when the functions in done are inlined
Remaining(storage, done) ==
    LET graph == CallGraph(storage)
        pruned == [k \in DOMAIN graph |-> [graph[k] EXCEPT !.callees = @ \ Range(done)]]
        Pending(entry) ==
            <<entry.at[1], storage.assembly_classes[entry.at[1]].functions[entry.at[2]].name>>
                \notin Range(done)
    IN  SelectSeq(pruned, Pending)

\* the function the loop of inline_new_classes takes next: the first of the
\* remaining call graph without remaining callees
NextToInline(storage, done) ==
    LET remaining == Remaining(storage, done)
        k == CHOOSE j \in DOMAIN remaining :
                /\ remaining[j].callees = {}
                /\ \A h \in 1..(j - 1) : remaining[h].callees # {}
    IN  remaining[k].at

\* one pass of the while loop of inline_new_classes: inline_function of the
\* next function; an exception of inline ends register_classes
inline_function ==
    /\ last = Result("init", 0, NoTx, Returned)
    /\ \E k \in DOMAIN Remaining(assembly_storage, inlined) :
          Remaining(assembly_storage, inlined)[k].callees = {}
    /\ LET at == NextToInline(assembly_storage, inlined)
           f == assembly_storage.assembly_classes[at[1]].functions[at[2]]
           outcome == InlineOutcome(assembly_storage, f)
       IN  IF outcome.result = CheckPassed
           THEN /\ assembly_storage' =
                      [assembly_storage EXCEPT
                          !.assembly_classes[at[1]].functions[at[2]] = outcome.function]
                /\ inlined' = Append(inlined, <<at[1], f.name>>)
                /\ register_objects' =
                      (<<at[1], f.name>> :>
                          InlinedRegisters(assembly_storage, register_objects, f))
                      @@ register_objects
                /\ UNCHANGED last
           ELSE /\ last' = Result("register_classes", 0, NoTx, outcome.result)
                /\ UNCHANGED <<assembly_storage, inlined, register_objects>>
    /\ UNCHANGED <<ledger_vars, current_time, config_vars, runtime_vars, verify_time,
                   fun, check_result, batch, serialized>>

\* the function h of the class: no call
LeafBodies == {<<Move("ret", "p")>>, <<Move("t", "p"), Move("ret", "t")>>}

\* the function g of the class: it may call h, as itself or as its object
MiddleBodies ==
    {<<Move("ret", "q")>>}
    \cup {<<Call("ret", QualifiedReference(ThisClass, "h"), <<"self", "p">>, s)>> :
            s \in BOOLEAN}
    \cup {<<Move("t", "q"),
            Call("t", QualifiedReference(ThisClass, "h"), <<"self", "t">>, s),
            Move("ret", "t")>> : s \in BOOLEAN}

\* the calls of g by the calling function: its local register takes the
\* result; a second call takes the result of the first as argument
CallerCalls(local, senders) ==
    [k \in DOMAIN senders |->
        Call(IF k = Len(senders) THEN "ret" ELSE local,
             QualifiedReference(ThisClass, "g"), <<"self", local, local>>, senders[k])]

\* the calling function f as the compiler makes it (compiler.py): a function
\* has self as its first argument register; a constructor starts with the NEW
\* of self and has the declared parameters as its argument registers
CallerFunction(kind, local, senders) ==
    LET arguments ==
            CASE kind = "function" -> <<"self", "a">>
              [] kind = "constructor" -> <<"a">>
              [] kind = "constructor without parameters" -> <<>>
        create ==
            IF kind = "function" THEN <<>>
            ELSE <<NewInstruction("self"), StoreInstruction("self", ThisClass, "owner"),
                   StoreInstruction("self", ThisClass, "x")>>
        first == IF arguments = <<>> THEN "me" ELSE arguments[Len(arguments)]
    IN  [AssemblyFunction(ThisClass, "f",
                          create \o <<Move(local, first)>> \o CallerCalls(local, senders),
                          arguments, [k \in DOMAIN arguments |-> "uint"], FALSE, "None")
            EXCEPT !.is_constructor = (kind # "function")]

CallerKinds == {"function", "constructor", "constructor without parameters"}

\* the classes under inlining: f calls g, g may call h
InlineClasses ==
    {AssemblyClass(ThisClass, GoodFields,
        <<CallerFunction(kind, local, senders),
          AssemblyFunction(ThisClass, "g", g_body, <<"self", "p", "q">>,
                           <<ThisClass, "uint", "uint">>, FALSE, "None"),
          AssemblyFunction(ThisClass, "h", h_body, <<"self", "p">>,
                           <<ThisClass, "uint">>, FALSE, "None")>>) :
        kind \in CallerKinds, local \in LocalLabels,
        senders \in UNION {[1..n -> BOOLEAN] : n \in 1..MaxCalls},
        g_body \in MiddleBodies, h_body \in LeafBodies}

\* register_classes of one class after the phases add, link and check
InitInline ==
    /\ LedgerInit
    /\ verifier
    /\ fun = NoFun
    /\ check_result = NoCheck
    /\ \E c \in InlineClasses :
          LET linked == link_new_classes(AddClasses(NewStorage, <<c>>).storage) IN
          /\ linked.result = CheckPassed
          /\ StorageCheck(linked.storage) = CheckPassed
          /\ assembly_storage = linked.storage
          /\ batch = <<c>>
    /\ inlined = <<>>
    /\ serialized = NoSerialized
    /\ register_objects = NoRegisters

NextInline == inline_function

SpecInline == InitInline /\ [][NextInline]_vars

----------------------------------------------------------------------------
(* AssemblyFunction.check_register_labels (zapper/assembly/functions.py)    *)

\* most characters of a register label, and most Register objects of a function
MaxLabelLength == 2
MaxRegisters == 3

\* a label is the string of its characters
LabelCharacters == {"a", "."}

RegisterLabels == SeqsUpTo(LabelCharacters, MaxLabelLength) \ {<<>>}

\* the functions under check: names holds the label of each Register object
\* of get_registers(), the registers of the instructions and me
LabelledFunctions ==
    [name : {"f"}, names : SeqsUpTo(RegisterLabels, MaxRegisters) \ {<<>>}]

\* get_duplicates(names)
get_duplicates(names) ==
    {names[k] : k \in {j \in DOMAIN names : \E h \in DOMAIN names : h # j /\ names[h] = names[j]}}

\* AssemblyFunction.check_register_labels: with_dot is [n for n in names if
\* '.' in names], all the names when the list names has the element '.'
check_register_labels(f) ==
    LET with_dot == SelectSeq(f.names, LAMBDA n : \E k \in DOMAIN f.names : f.names[k] = <<".">>)
    IN  IF Len(with_dot) > 0
        THEN AssemblySecurityException("Register labels with dots")
        ELSE IF get_duplicates(f.names) # {}
        THEN AssemblySecurityException("Register labels are not unique")
        ELSE CheckPassed

\* AssemblyClass.check_register_labels for the function of the class
check_register_labels_of_class ==
    /\ check_result = NoCheck
    /\ check_result' = check_register_labels(fun)
    /\ UNCHANGED <<fun, ledger_vars, current_time, config_vars, runtime_vars, last,
                   verify_time, assembly_storage, batch, inlined, serialized,
                   register_objects>>

InitLabels ==
    /\ LedgerInit
    /\ verifier
    /\ StorageInit
    /\ fun \in LabelledFunctions
    /\ check_result = NoCheck

NextLabels == check_register_labels_of_class

SpecLabels == InitLabels /\ [][NextLabels]_vars

----------------------------------------------------------------------------
(* The fields of a class: AssemblyClass.add_field, AssemblyStorage.add_class *)
(* and the allocation of register_classes                                   *)

\* the fields the host adds to a class
FieldNames == {"owner", "X", "a", "x"}

\* the locations of the fields of a class built with the fields argument of
\* AssemblyClass: AssemblyField(name, type, location=...) takes any location
HandMadeLocations == {0, 1, 7}

\* the fields dict of a new class: empty (the compiler adds the fields with
\* add_field) or handed to AssemblyClass(qualified_name, has_address, fields)
InitialFields ==
    {<<>>}
    \cup {("owner" :> AssemblyField(t, 0)) : t \in {"address", "uint"}}
    \cup {("x" :> AssemblyField("uint", 0))}
    \cup {("owner" :> AssemblyField("address", l)) @@ ("x" :> AssemblyField("uint", k)) :
            l, k \in HandMadeLocations}

\* AssemblyClass.add_field(field)
add_field(c, name, type) ==
    IF name \in DOMAIN c.fields
    THEN [class |-> c, result |-> AssemblySecurityException("Tried adding field twice")]
    ELSE [class |-> set_field_locations(
                      [c EXCEPT !.fields = (name :> AssemblyField(type, "None")) @@ @]),
          result |-> Returned]

\* the host adds a field to the class it builds
AddField ==
    /\ check_result = NoCheck
    /\ \E name \in FieldNames :
         \E type \in (IF name = "owner" THEN {"address", "uint"} ELSE {"uint"}) :
            LET outcome == add_field(batch[1], name, type) IN
            /\ batch' = <<outcome.class>>
            /\ last' = Result("add_field", 0, NoTx, outcome.result)
    /\ UNCHANGED <<ledger_vars, current_time, config_vars, runtime_vars, verify_time,
                   fun, check_result, assembly_storage, inlined, serialized,
                   register_objects>>

\* Ledger.register_classes up to the end of the loop of add_class
AddClass ==
    /\ check_result = NoCheck
    /\ LET added == AddClasses(assembly_storage, batch) IN
       /\ assembly_storage' = added.storage
       /\ check_result' = added.result
       /\ last' = Result("add_class", 0, NoTx, added.result)
    /\ UNCHANGED <<ledger_vars, current_time, config_vars, runtime_vars, verify_time,
                   fun, batch, inlined, serialized, register_objects>>

\* Ledger.register_classes from link_new_classes on: the class has no
\* function, so no phase raises; allocation_for_new_classes sets the field
\* locations of the new classes
AllocateClass ==
    /\ check_result = CheckPassed
    /\ assembly_storage' =
          FinishClasses(assembly_storage, assembly_storage.classes_to_check)
    /\ check_result' = [result |-> "allocated", reason |-> "none"]
    /\ last' = Result("register_classes", 0, NoTx, Returned)
    /\ UNCHANGED <<ledger_vars, current_time, config_vars, runtime_vars, verify_time,
                   fun, batch, inlined, serialized, register_objects>>

InitFields ==
    /\ LedgerInit
    /\ verifier
    /\ fun = NoFun
    /\ check_result = NoCheck
    /\ assembly_storage = NewStorage
    /\ batch \in {<<AssemblyClass("A", fields, <<>>)>> : fields \in InitialFields}
    /\ inlined = <<>>
    /\ serialized = NoSerialized
    /\ register_objects = NoRegisters

NextFields ==
    \/ AddField
    \/ AddClass
    \/ AllocateClass

SpecFields == InitFields /\ [][NextFields]_vars

----------------------------------------------------------------------------
(* verify_and_execute_transaction on transactions with any combination of   *)
(* fields (zapper/ledger/ledger.py)                                         *)

\* the transactions handed to the ledger: every combination of a function
\* that is registered or not, the current root or the root of the empty tree,
\* serials without and with a repetition, no record or one record, a seed, and
\* the time of the ledger or a later one
AnyTransactions ==
    [class_function : {<<"Class", "f">>, <<"Class", "h">>},
     merkle_tree_root : {MerkleRoot(merkle_tree), MerkleRoot(EmptyTree)},
     consumed_serials : {<<>>, <<"1">>, <<"2">>, <<"1", "1">>, <<"1", "2">>},
     new_records : {<<>>, <<"0acf">>},
     unique_seed : Seeds,
     current_time : {InitialTime, InitialTime + 1}]

\* a client hands a transaction to the ledger; last holds the transaction
\* whatever the outcome
SubmitAny ==
    /\ \E tx \in AnyTransactions :
         \E verdict \in (IF VerifierAsked(tx) THEN Verdicts ELSE {"true"}) :
           \E order \in ListsOf(Range(tx.consumed_serials)) :
             /\ verify_and_execute_transaction(tx, verdict, order)
             /\ last' = [Result("verify", 0, tx, VerifyOutcome(tx, verdict))
                            EXCEPT !.tx = tx]
             /\ verify_time' = VerifyTime(tx)
    /\ UNCHANGED <<current_time, config_vars, runtime_vars, assembly_vars>>

NextOrder == SubmitAny

\* a ledger that verifies proofs
InitOrder == Init /\ verifier

SpecOrder == InitOrder /\ [][NextOrder]_vars

----------------------------------------------------------------------------
(* Properties of the ledger *)

NoRepetition(s) == Cardinality(Range(s)) = Len(s)

RECURSIVE Flatten(_)
Flatten(ss) == IF ss = <<>> THEN <<>> ELSE Head(ss) \o Flatten(Tail(ss))

HistorySerials == Flatten([i \in DOMAIN accepted_transactions |-> accepted_transactions[i][1]])
HistoryRecords == Flatten([i \in DOMAIN accepted_transactions |-> accepted_transactions[i][2]])

\* a step in which the ledger accepts a transaction handed to it
AcceptStep == last'.op = "verify" /\ last'.result = "accepted"
\* a step in which the ledger refuses a transaction handed to it
RefuseStep == last'.op = "verify" /\ last'.result # "accepted"

\* C1: no serial occurs twice in the accepted history, the published serials
\* are those of the history, and a transaction is accepted only if its
\* serials are mutually distinct and none of them is published yet
C1_SerialsSpentOnce ==
    /\ [](/\ NoRepetition(HistorySerials)
          /\ Range(HistorySerials) = published_serial_numbers)
    /\ [][AcceptStep =>
            /\ NoRepetition(last'.tx.consumed_serials)
            /\ Range(last'.tx.consumed_serials) \cap published_serial_numbers = {}]_vars

\* two transactions with serials are accepted, and a third that reuses a
\* serial has been refused
C1_Witness ==
    /\ Len(accepted_transactions) = 2
    /\ accepted_transactions[1][1] # <<>> /\ accepted_transactions[2][1] # <<>>
    /\ last.reason = "at least one serial number of transaction has been observed earlier"

\* C2: a transaction is accepted only if its seed is not published yet, so
\* there are as many published seeds as accepted transactions
C2_SeedsUsedOnce ==
    /\ [](Cardinality(published_unique_seeds) = Len(accepted_transactions))
    /\ [][AcceptStep => /\ last'.tx.unique_seed \notin published_unique_seeds
                        /\ last'.tx.unique_seed \in published_unique_seeds']_vars

\* a transaction has been accepted and a later one with its seed refused
C2_Witness ==
    /\ Len(accepted_transactions) = 1
    /\ last.reason = "unique_seed has been observed earlier"

\* C3: a transaction is accepted only if its root is the root of the tree
\* at the moment of the call
C3_RootIsCurrent ==
    [][AcceptStep => last'.tx.merkle_tree_root = MerkleRoot(merkle_tree)]_vars

\* after a record has been inserted, a transaction with an earlier root is refused
C3_Witness ==
    /\ next_record_idx > 0
    /\ last.reason = "transaction root does not match current merkle tree root"

\* C4: a call that does not accept the transaction leaves the serials, the
\* seeds, the tree, next_record_idx and the history as they were
C4_RefusalChangesNothing ==
    [][RefuseStep => UNCHANGED ledger_vars]_vars

\* the verifier has refused a proof on a ledger that holds a transaction
C4_Witness ==
    /\ accepted_transactions # <<>>
    /\ last.op = "verify"
    /\ last.reason \in {"proof verification failed", "proof verification raised an error"}

\* C5: every refusal is a TxRejectedException
C5_OneRejectionKind ==
    (last.op = "verify" /\ last.result # "accepted") => last.result = "TxRejectedException"

\* C6: the leaves of the tree are the records of the accepted transactions,
\* in the order of acceptance and of each new_records list, at the indices
\* 0 .. next_record_idx - 1
C6_RecordsInSubmissionOrder ==
    /\ next_record_idx = Len(HistoryRecords)
    /\ DOMAIN merkle_tree = 0..(next_record_idx - 1)
    /\ \A i \in DOMAIN merkle_tree : merkle_tree[i] = HistoryRecords[i + 1]

\* two transactions with two different records each are in the tree, and a
\* transaction has been refused after them
C6_Witness ==
    /\ Len(accepted_transactions) = 2
    /\ next_record_idx = 4
    /\ merkle_tree[0] # merkle_tree[1] /\ merkle_tree[2] # merkle_tree[3]
    /\ last.result = "TxRejectedException"

\* C7: a transaction is accepted only if its current_time is the ledger's at
\* the moment of the call, and the verifier is given the ledger's time
C7_TimestampIsCurrent ==
    [][(AcceptStep => last'.tx.current_time = current_time)
       /\ ((last'.op = "verify" /\ verify_time' # 0) => verify_time' = current_time)]_vars

\* the clock has moved and a transaction made for the earlier time is refused
C7_Witness ==
    /\ current_time # InitialTime
    /\ last.reason = "timestamp of transaction invalid"

\* a step that is a call_function of runtime last'.rt
CallStep == last'.op = "call"

\* the back-end holds exactly the ledger's history: as many transactions, and
\* transaction i of the back-end is transaction i of the ledger
SyncedWithLedger(backend) ==
    /\ NofSyncedTx(backend) = Len(accepted_transactions)
    /\ \A i \in DOMAIN backend :
         /\ i \in DOMAIN accepted_transactions
         /\ Range(backend[i][1]) = Range(accepted_transactions[i][1])
         /\ backend[i][2] = accepted_transactions[i][2]

\* C8: whenever a runtime starts a call_function, its back-end has been synced
\* with every transaction the ledger has accepted so far, in ledger order
C8_SyncedBeforeCall == [][CallStep => SyncedWithLedger(backends[last'.rt])]_vars

\* C9: when backend.execute fails, call_function raises BackendExecuteException,
\* no transaction reaches the ledger or its verifier, and the ledger state and
\* the back-end's number of synced transactions stay as they were
C9_FailedExecuteChangesNothing ==
    [][(CallStep /\ exec_result' = "raised") =>
          /\ last'.result = "BackendExecuteException"
          /\ verify_time' = 0
          /\ UNCHANGED ledger_vars
          /\ NofSyncedTx(backends'[last'.rt]) = NofSyncedTx(backends[last'.rt])]_vars

\* a call fails in the back-end of a runtime that has a transaction behind it
C9_Witness ==
    /\ last.op = "call"
    /\ exec_result = "raised"
    /\ last.result = "BackendExecuteException"
    /\ accepted_transactions # <<>>
    /\ NofSyncedTx(backends[last.rt]) > 0

\* the registers a function writes: the destinations of its write instructions
WrittenRegisters(f) ==
    {f.instructions[k].register :
        k \in {j \in DOMAIN f.instructions : IsWriteInstruction(f.instructions[j])}}

\* the function stores to the owner field of an object that existed before
\* the call: the target is an argument register the function never writes
StoresOwnerOfExistingObject(f) ==
    \E k \in DOMAIN f.instructions :
        /\ f.instructions[k].op = "STORE"
        /\ f.instructions[k].field = "owner"
        /\ f.instructions[k].register \in ArgumentRegisters \ WrittenRegisters(f)

\* C10: for a has_address class, no function that stores to the owner of an
\* already existing object passes the check phase; such a function is
\* rejected with a security error
C10_OwnerFrozenAfterConstruction ==
    (check_result # NoCheck /\ fun.has_address /\ StoresOwnerOfExistingObject(fun))
        => check_result.result = "AssemblySecurityException"

\* C11: a function passes the check phase only if every STORE in it writes a
\* field of the function's class: the class declaring the field and the class
\* of the target object are both the function's class
C11_StoreOnlyOwnFields ==
    check_result = CheckPassed =>
        \A k \in DOMAIN fun.instructions :
            fun.instructions[k].op = "STORE" =>
                /\ RegisterType(fun.instructions[k].register) = ThisClass
                /\ fun.instructions[k].field_class = ThisClass

\* field fld of the function's class is written through register s
FieldInitialised(f, s, fld) ==
    \E k \in DOMAIN f.instructions :
        /\ f.instructions[k].op = "STORE"
        /\ f.instructions[k].register = s
        /\ f.instructions[k].field = fld
        /\ f.instructions[k].field_class = ThisClass

\* C13: check_constructor accepts a function only if NEW occurs at no position
\* other than the first and, when the first instruction is a NEW into s, every
\* field declared by the function's class is the field of a STORE through s
C13_ConstructorInitialisesAllFields ==
    (check_result # NoCheck /\ check_constructor(fun) = CheckPassed) =>
        /\ \A k \in 2..Len(fun.instructions) : fun.instructions[k].op # "NEW"
        /\ fun.instructions[1].op = "NEW" =>
              \A fld \in ClassFields :
                  FieldInitialised(fun, fun.instructions[1].register, fld)

\* the storage in which the check phase of register_classes(classes) runs:
\* the classes added and the pending classes linked
StorageUnderCheck(storage, classes) ==
    link_new_classes(AddClasses(storage, classes).storage).storage

\* the CALL instructions the check phase looks at, each with the class of its
\* call site
CheckedCalls(storage) ==
    {[site |-> storage.assembly_classes[c].qualified_name, call |-> f.instructions[k]] :
        <<c, f, k>> \in
            {t \in UNION {UNION {{<<c, storage.assembly_classes[c].functions[j], k>> :
                                    k \in DOMAIN storage.assembly_classes[c].functions[j].instructions} :
                                 j \in DOMAIN storage.assembly_classes[c].functions} :
                          c \in Range(storage.classes_to_check)} :
                t[2].instructions[t[3]].op = "CALL"}}

\* register_classes got past the check phase
PassedCheckPhase(result) == result \in {"returned", "AssertionError"}

\* the visibility rule of a CALL to a private function
CallPermitted(site, function) ==
    function.is_private =>
        IF function.is_private_for = "None" THEN site = function.assembly_class
        ELSE site = function.is_private_for

\* C12: when register_classes gets past the check phase, every CALL to a
\* private function among the checked functions comes from the callee's own
\* class if is_private_for is None and from the class is_private_for otherwise;
\* and no key of the registry of serialized functions names a private function
C12_PrivateCallsAndRegistry ==
    [][/\ PassedCheckPhase(last'.result) =>
            \A c \in CheckedCalls(StorageUnderCheck(assembly_storage, batch')) :
                CallPermitted(c.site, c.call.function)
       /\ \A key \in serialized_functions' :
            /\ key[1] \in DOMAIN assembly_storage'.assembly_classes
            /\ ~GetFunction(assembly_storage'.assembly_classes[key[1]], key[2]).is_private]_vars

\* a call from A to a function of B that is private for A was accepted, the
\* caller is in the registry and the callee is not
C12_Witness ==
    /\ last.op = "register_classes"
    /\ last.result = "returned"
    /\ \E k \in DOMAIN batch : \E j \in DOMAIN batch[k].functions :
          \E h \in DOMAIN batch[k].functions[j].instructions :
              LET i == batch[k].functions[j].instructions[h] IN
              /\ i.op = "CALL"
              /\ batch[k].qualified_name = "A"
              /\ i.function.qualified_class_name = "B"
              /\ GetFunction(assembly_storage.assembly_classes["B"], "g").is_private_for = "A"
    /\ <<"A", "f">> \in serialized_functions
    /\ <<"B", "g">> \notin serialized_functions

\* the function of class c named n holds a CALL instruction
HoldsCall(storage, c, n) ==
    \E k \in DOMAIN GetFunction(storage.assembly_classes[c], n).instructions :
        GetFunction(storage.assembly_classes[c], n).instructions[k].op = "CALL"

\* the functions of the storage, each as <<class name, function name>>
StoredFunctions(storage) ==
    UNION {{<<c, storage.assembly_classes[c].functions[k].name>> :
                k \in DOMAIN storage.assembly_classes[c].functions} :
           c \in DOMAIN storage.assembly_classes}

\* C14: after a register_classes whose inline_new_classes completed, no
\* function of any class in the storage holds a CALL instruction, and no
\* function of the registry of serialized functions holds one
C14_NoCallAfterInlining ==
    /\ (last.op = "register_classes" /\ last.result = "returned") =>
            \A key \in StoredFunctions(assembly_storage) :
                ~HoldsCall(assembly_storage, key[1], key[2])
    /\ \A key \in serialized_functions : ~HoldsCall(assembly_storage, key[1], key[2])

\* class A alone went through the pipeline, its f calling its g and its g
\* calling the g of a class B of an earlier batch: the body of f holds the
\* twice-cloned return register of B.g
C14_Witness ==
    /\ last.op = "register_classes"
    /\ last.result = "returned"
    /\ batch = <<ClassA(CallBody("A", "g"), CallBody("B", "g"), "public")>>
    /\ \E k \in DOMAIN GetFunction(assembly_storage.assembly_classes["A"], "f").instructions :
          GetFunction(assembly_storage.assembly_classes["A"], "f").instructions[k].value_1
              = "ret#inlined#0#inlined#0"

\* the calls among the functions of the classes in classes_to_check, read off
\* the CALL instructions
PendingCalls(storage) ==
    {<<c.site, <<c.call.function.assembly_class, c.call.function.name>>>> :
        c \in {x \in {[site |-> <<t[1], t[2].name>>, call |-> t[2].instructions[t[3]]] :
                        t \in UNION {UNION {{<<c, storage.assembly_classes[c].functions[j], k>> :
                                    k \in DOMAIN storage.assembly_classes[c].functions[j].instructions} :
                                 j \in DOMAIN storage.assembly_classes[c].functions} :
                          c \in Range(storage.classes_to_check)}} :
                 /\ x.call.op = "CALL"
                 /\ x.call.function.assembly_class \in Range(storage.classes_to_check)}}

\* the pairs joined by a path of n or fewer edges
RECURSIVE PathsUpTo(_, _)
PathsUpTo(edges, n) ==
    IF n <= 1 THEN edges
    ELSE LET shorter == PathsUpTo(edges, n - 1) IN
         shorter \cup {<<p[1], e[2]>> : <<p, e>> \in {t \in shorter \X edges : t[1][2] = t[2][1]}}

HasCycle(edges) ==
    \E p \in PathsUpTo(edges, Cardinality(edges) + 1) : p[1] = p[2]

C16_SignatureSlots ==
    check_result.result \in {"allocated", "serialized"} =>
        /\ Location(fun.location, fun.me_register) = 0
        /\ \A k \in DOMAIN fun.argument_registers :
              Location(fun.location, fun.argument_registers[k]) = k

\* an allocated function with three Uint arguments, runtime checks and the
\* inlined body of B.g, whose return register took over the slot of an
\* argument
C16_Witness ==
    /\ check_result.result = "allocated"
    /\ Len(fun.argument_registers) = 3
    /\ Len(fun.runtime_type_check_instructions) = 3
    /\ \E k \in DOMAIN fun.instructions : fun.instructions[k].register = "ret#inlined#0"
    /\ Location(fun.location, "ret") \in 1..3

\* C17: in every SerializedFunction the operands are not negative and the
\* slots of the destination, of the register source and of the return
\* register are below the register budget of the back-end
C17_SlotsWithinBudget ==
    serialized.result = "returned" =>
        /\ serialized.return_register \in 0..(RegisterBudget - 1)
        /\ \A k \in DOMAIN serialized.instructions :
              /\ serialized.instructions[k].opcode >= 0
              /\ serialized.instructions[k].dst \in 0..(RegisterBudget - 1)
              /\ serialized.instructions[k].src_1 \in 0..(RegisterBudget - 1)
              /\ serialized.instructions[k].src_2 >= 0

\* C18: a register_classes that raises leaves the assembly storage and the
\* registry of serialized functions as they were before the call
C18_FailedRegisterChangesNothing ==
    [][(last'.op = "register_classes" /\ last'.result # "returned") =>
            /\ assembly_storage' = assembly_storage
            /\ serialized_functions' = serialized_functions]_vars

\* the classes of the storage that an earlier register_classes finalized
FinalizedClasses(storage) ==
    DOMAIN storage.assembly_classes \ Range(storage.classes_to_check)

\* C19: a register_classes that returns leaves every class finalized before
\* it as it was: its class id, its fields and their locations, the
\* instructions, runtime checks and slots of its functions, and its keys in
\* the registry of serialized functions
C19_FinalizedClassesUntouched ==
    [][(last'.op = "register_classes" /\ last'.result = "returned") =>
            \A c \in FinalizedClasses(assembly_storage) :
                /\ assembly_storage'.assembly_classes[c] = assembly_storage.assembly_classes[c]
                /\ assembly_storage'.class_to_id[c] = assembly_storage.class_to_id[c]
                /\ \A key \in StoredFunctions(assembly_storage) :
                      key[1] = c =>
                          (key \in serialized_functions' <=> key \in serialized_functions)]_vars

\* class B was finalized by an earlier call; the call of a class A whose f
\* calls B.g returned and the body of f holds the clone of the return
\* register of B.g
C19_Witness ==
    /\ last.op = "register_classes"
    /\ last.result = "returned"
    /\ batch = <<ClassA(CallBody("B", "g"), PlainBody, "public")>>
    /\ assembly_storage.assembly_classes["B"].class_id = 0
    /\ assembly_storage.assembly_classes["A"].class_id = 1
    /\ <<"B", "g">> \in serialized_functions
    /\ \E k \in DOMAIN GetFunction(assembly_storage.assembly_classes["A"], "f").instructions :
          GetFunction(assembly_storage.assembly_classes["A"], "f").instructions[k].register
              = "ret#inlined#0"

\* the ids of the storage are 0, 1, 2, ... without a gap, distinct for
\* distinct classes, and class_to_id holds the class_id of every class
ClassIdsInOrder(storage) ==
    /\ DOMAIN storage.class_to_id = DOMAIN storage.assembly_classes
    /\ \A c \in DOMAIN storage.assembly_classes :
          storage.class_to_id[c] = storage.assembly_classes[c].class_id
    /\ \A c, d \in DOMAIN storage.assembly_classes :
          c # d => storage.class_to_id[c] # storage.class_to_id[d]
    /\ {storage.class_to_id[c] : c \in DOMAIN storage.class_to_id}
          = 0..(storage.next_class_id - 1)

\* add_class of a class that it rejects changes nothing, and it rejects a
\* class whose name the storage holds, a class without owner, with an owner
\* that is no address and with an owner that is not at location 0
RejectedAddChangesNothing(storage) ==
    \A c \in ClassesA \cup ClassesB \cup RefusedClasses :
        LET added == add_class(storage, c) IN
        /\ added.result # CheckPassed => added.storage = storage
        /\ added.result = CheckPassed <=>
              /\ c.qualified_name \notin DOMAIN storage.assembly_classes
              /\ c \notin RefusedClasses
        /\ added.result = CheckPassed =>
              /\ added.storage.class_to_id[c.qualified_name] = storage.next_class_id
              /\ added.storage.next_class_id = storage.next_class_id + 1

\* C20: in every storage state the class ids are 0, 1, 2, ..., distinct and
\* the same in class_to_id and in the classes; a rejected add_class assigns
\* no id and changes nothing, a name is added at most once; and over a
\* register_classes the ids given before stay and the new ids are greater,
\* in the order of the classes of the call
C20_ClassIds ==
    /\ [](ClassIdsInOrder(assembly_storage) /\ RejectedAddChangesNothing(assembly_storage))
    /\ [][/\ \A c \in DOMAIN assembly_storage.class_to_id :
                /\ c \in DOMAIN assembly_storage'.class_to_id
                /\ assembly_storage'.class_to_id[c] = assembly_storage.class_to_id[c]
          /\ \A c \in DOMAIN assembly_storage'.class_to_id \ DOMAIN assembly_storage.class_to_id :
                assembly_storage'.class_to_id[c] >= assembly_storage.next_class_id
          /\ \A j, k \in DOMAIN batch' :
                (/\ j < k
                 /\ batch'[j].qualified_name # batch'[k].qualified_name
                 /\ {batch'[j].qualified_name, batch'[k].qualified_name}
                        \subseteq DOMAIN assembly_storage'.class_to_id
                            \ DOMAIN assembly_storage.class_to_id)
                => assembly_storage'.class_to_id[batch'[j].qualified_name]
                     < assembly_storage'.class_to_id[batch'[k].qualified_name]]_vars

\* B was added before A, each got its id, and the last call was rejected
\* for a class that is in the storage already
C20_Witness ==
    /\ last.op = "register_classes"
    /\ last.result = "AssemblySecurityException"
    /\ last.reason = "Tried adding class twice"
    /\ assembly_storage.next_class_id = 2
    /\ assembly_storage.class_to_id["B"] = 0
    /\ assembly_storage.class_to_id["A"] = 1

----------------------------------------------------------------------------
(* Properties of inlining *)

\* the function of the storage with the key <<class name, function name>>
FunctionAt(storage, key) == GetFunction(storage.assembly_classes[key[1]], key[2])

\* the key of a linked function reference
CalledKey(i) == <<i.function.assembly_class, i.function.name>>

\* the label of the clone made for the CALL at position k (from 1)
ClonedLabel(label, k) == label \o "#inlined#" \o ToString(k - 1)

\* the instructions that take the place of instruction number k of f
ExpansionWidth(storage, f, k) ==
    IF f.instructions[k].op = "CALL"
    THEN LET callee == FunctionAt(storage, CalledKey(f.instructions[k])) IN
         Len(callee.argument_registers) + Len(callee.instructions) + 2
    ELSE 1

\* the instructions that take the place of the instructions before number k
RECURSIVE ExpansionOffset(_, _, _)
ExpansionOffset(storage, f, k) ==
    IF k = 1 THEN 0
    ELSE ExpansionOffset(storage, f, k - 1) + ExpansionWidth(storage, f, k - 1)

\* instruction number k of before is expanded in after as inlining has it
ExpandedAsSpecified(storage, before, after, k) ==
    LET i == before.instructions[k]
        o == ExpansionOffset(storage, before, k)
    IN  IF i.op # "CALL" THEN after.instructions[o + 1] = i
        ELSE LET callee == FunctionAt(storage, CalledKey(i))
                 n == Len(callee.argument_registers)
                 m == Len(callee.instructions)
             IN  /\ after.instructions[o + 1].op \in {"MOV", "PK"}
                 /\ after.instructions[o + 1].register = ClonedLabel(callee.me_register, k)
                 /\ Len(i.call_arguments) = n
                 /\ \A j \in 1..n :
                       after.instructions[o + 1 + j] =
                          Move(ClonedLabel(callee.argument_registers[j], k),
                               i.call_arguments[j])
                 /\ \A j \in 1..m :
                       after.instructions[o + 1 + n + j] =
                          [callee.instructions[j] EXCEPT
                              !.register = ClonedLabel(@, k),
                              !.value_1 = ClonedLabel(@, k)]
                 /\ after.instructions[o + n + m + 2] =
                       Move(i.register, ClonedLabel(callee.return_register, k))

\* the function an inline_function step has just inlined
JustInlined == inlined'[Len(inlined')]

\* C21: inlining a function puts in the place of each CALL, and of nothing
\* else, the instruction that binds the me register of the callee's clone, one
\* MOV for each parameter of the callee from the call argument of the same
\* position, the clone of the callee's inlined body in its order, and one MOV
\* of the clone's return register into the destination of the CALL; the other
\* instructions keep their order and the caller keeps its me, argument and
\* return registers
C21_InliningRewritesCalls ==
    [][Len(inlined') = Len(inlined) + 1 =>
        LET before == FunctionAt(assembly_storage, JustInlined)
            after == FunctionAt(assembly_storage', JustInlined)
        IN  /\ Len(after.instructions) =
                  ExpansionOffset(assembly_storage, before, Len(before.instructions) + 1)
            /\ \A k \in DOMAIN before.instructions :
                  ExpandedAsSpecified(assembly_storage, before, after, k)
            /\ after.me_register = before.me_register
            /\ after.argument_registers = before.argument_registers
            /\ after.return_register = before.return_register]_vars

\* the calling function with two calls is inlined, and the function it calls
\* had a call of its own
C21_Witness ==
    /\ batch # <<>>
    /\ <<ThisClass, "f">> \in Range(inlined)
    /\ Cardinality({k \in DOMAIN batch[1].functions[1].instructions :
                       batch[1].functions[1].instructions[k].op = "CALL"}) = 2
    /\ \E k \in DOMAIN batch[1].functions[2].instructions :
          batch[1].functions[2].instructions[k].op = "CALL"
    /\ batch[1].functions[1].is_constructor

\* the object a function acts for: the first argument register of a function,
\* the destination of the NEW of a constructor
SelfObject(f) ==
    IF f.is_constructor THEN f.instructions[1].register ELSE f.argument_registers[1]

\* C22: for every call that is inlined, in a function and in a constructor
\* alike, the me register of the callee's clone is set to PK of the caller's
\* self object (for a constructor the object its NEW created) when the CALL has
\* sender_is_self, and to the caller's me register otherwise
C22_SenderOfInlinedCall ==
    [][/\ last' = last
       /\ Len(inlined') = Len(inlined) + 1 =>
            LET before == FunctionAt(assembly_storage, JustInlined)
                after == FunctionAt(assembly_storage', JustInlined)
            IN  \A k \in DOMAIN before.instructions :
                   before.instructions[k].op = "CALL" =>
                      LET callee == FunctionAt(assembly_storage,
                                               CalledKey(before.instructions[k]))
                          me == ClonedLabel(callee.me_register, k)
                          binding ==
                              after.instructions[
                                  ExpansionOffset(assembly_storage, before, k) + 1]
                      IN  binding =
                             IF before.instructions[k].sender_is_self
                             THEN PublicKey(me, SelfObject(before))
                             ELSE Move(me, before.me_register)]_vars

\* C23: after inline_new_classes, inside every function two register operands
\* with the same label are the same Register object: one inlining replaces
\* every occurrence of a register of the callee by one and the same clone, and
\* the clones of different call sites or nesting depths share no label with
\* each other or with a register of the caller
C23_OneObjectPerLabel ==
    \A key \in DOMAIN register_objects :
        \A r, s \in register_objects[key] : r.label = s.label => r = s

----------------------------------------------------------------------------
(* Properties of register allocation *)

\* the least slot of a non-empty pool
LowestSlot(pool) == CHOOSE slot \in pool : \A other \in pool : slot <= other

\* the walk over the operands of one instruction when every pop takes the
\* lowest free slot: whether the slots in location are the ones such a walk
\* hands out, and the pool, the counter and the registers met after it
RECURSIVE LowestFirstOperands(_, _, _)
LowestFirstOperands(location, operands, walk) ==
    IF operands = <<>> \/ ~walk.lowest THEN walk
    ELSE LET r == Head(operands) IN
         IF r \in walk.met THEN LowestFirstOperands(location, Tail(operands), walk)
         ELSE LowestFirstOperands(location, Tail(operands),
                 IF walk.free = {}
                 THEN [lowest |-> location[r] = walk.n, free |-> {}, n |-> walk.n + 1,
                       met |-> walk.met \cup {r}]
                 ELSE [lowest |-> location[r] = LowestSlot(walk.free),
                       free |-> walk.free \ {location[r]}, n |-> walk.n,
                       met |-> walk.met \cup {r}])

\* the walk over the instructions from number k on: the slots of the registers
\* last used by an instruction go to the pool after its operands have slots
RECURSIVE LowestFirstFrom(_, _, _)
LowestFirstFrom(f, k, walk) ==
    LET instructions == get_all_instructions(f) IN
    IF k > Len(instructions) \/ ~walk.lowest THEN walk.lowest
    ELSE LET operands == InstructionRegisters(instructions[k])
             after == LowestFirstOperands(f.location, operands, walk)
         IN  LowestFirstFrom(f, k + 1,
                [after EXCEPT !.free =
                    @ \cup {f.location[r] : r \in {x \in Range(operands) :
                                                LastUsed(instructions, x) = k}}])

\* C24: in register allocation a register met in the instruction stream
\* without a slot gets the lowest slot of the free pool, or the next slot
\* never used when the pool is empty; the slots of the registers an
\* instruction uses last go to the pool after all its operands have slots
C24_LowestFreeSlot ==
    check_result.result = "allocated" =>
        LowestFirstFrom(fun, 1,
            [lowest |-> TRUE, free |-> {}, n |-> Len(fun.argument_registers) + 1,
             met |-> {fun.me_register} \cup Range(fun.argument_registers)])

\* the positions of the instructions of f that mention register r
Mentions(f, r) ==
    {k \in DOMAIN get_all_instructions(f) :
        r \in Range(InstructionRegisters(get_all_instructions(f)[k]))}

\* the live range of r: from its first to its last mention, me and the
\* arguments from the start (position 0)
LiveRange(f, r) ==
    Mentions(f, r) \cup
    (IF r = f.me_register \/ r \in Range(f.argument_registers) THEN {0} ELSE {})

Earliest(positions) == CHOOSE k \in positions : \A j \in positions : k <= j

Latest(positions) == CHOOSE k \in positions : \A j \in positions : k >= j

LiveRangesOverlap(f, r, s) ==
    /\ Earliest(LiveRange(f, r)) <= Latest(LiveRange(f, s))
    /\ Earliest(LiveRange(f, s)) <= Latest(LiveRange(f, r))

\* registers whose live ranges overlap hold different slots
OverlappingRegistersApart ==
    \A r, s \in DOMAIN fun.location :
        r # s /\ LiveRangesOverlap(fun, r, s) => fun.location[r] # fun.location[s]

\* the slot of the return register, read when the function ends, is given to
\* no register that is mentioned after the return register is written
ReturnValueKept ==
    fun.return_register \in DOMAIN fun.location =>
        \A s \in DOMAIN fun.location \ {fun.return_register} :
            Latest(LiveRange(fun, s)) >= Earliest(LiveRange(fun, fun.return_register))
                => fun.location[s] # fun.location[fun.return_register]

\* C25: after the allocation of a function two registers whose live ranges
\* overlap never hold the same slot, a slot goes to another register only
\* after the last instruction that mentions its holder, and so no value that
\* is read later, the value of the return register included, is overwritten
\* through a shared slot
C25_NoLiveValueOverwritten ==
    check_result.result = "allocated" => OverlappingRegistersApart /\ ReturnValueKept

----------------------------------------------------------------------------
(* Properties of the runtime's sync after a call *)

\* the back-end's transactions are the first transactions of the ledger
PrefixOfLedger(backend) ==
    /\ NofSyncedTx(backend) <= Len(accepted_transactions)
    /\ \A i \in DOMAIN backend :
         /\ Range(backend[i][1]) = Range(accepted_transactions[i][1])
         /\ backend[i][2] = accepted_transactions[i][2]

\* C26: call_function invokes sync_tx only after the ledger accepted the
\* transaction, once, with its serials and records and at the index at which
\* the ledger appended it; when the ledger rejects the transaction the error
\* reaches the caller and the back-end's synced transactions stay as they
\* were; so the transactions synced into a back-end are always a prefix of the
\* ledger's accepted history
C26_SyncOnAcceptance ==
    /\ [](\A rt \in DOMAIN backends : PrefixOfLedger(backends[rt]))
    /\ [][CallStep =>
            IF last'.result = "accepted"
            THEN /\ Len(accepted_transactions') = Len(accepted_transactions) + 1
                 /\ backends'[last'.rt] =
                       Append(backends[last'.rt],
                              <<last'.tx.consumed_serials, last'.tx.new_records>>)
                 /\ NofSyncedTx(backends'[last'.rt]) = Len(accepted_transactions')
            ELSE /\ backends' = backends
                 /\ last'.result # "returned"]_vars

----------------------------------------------------------------------------
(* Properties of the runtime checks *)

IsContractType(type) == type \notin {"uint", "address", "long"}

\* the instructions the check of an argument of the type takes
CheckWidth(type) ==
    IF type = "uint" THEN 1 ELSE IF IsContractType(type) THEN 3 ELSE 0

\* the instructions the checks of the arguments before number k take
RECURSIVE CheckOffset(_, _)
CheckOffset(f, k) ==
    IF k = 1 THEN 0 ELSE CheckOffset(f, k - 1) + CheckWidth(f.argument_types[k - 1])

\* the check of argument number k stands at its place in the prefix
CheckedAsSpecified(f, class_to_id, k) ==
    LET checks == f.runtime_type_check_instructions
        reg == f.argument_registers[k]
        o == CheckOffset(f, k)
    IN  IF f.argument_types[k] = "uint"
        THEN checks[o + 1] = [op |-> "PLUS", register |-> reg, value_1 |-> reg]
        ELSE IsContractType(f.argument_types[k]) =>
                LET c == checks[o + 1].register IN
                /\ checks[o + 1] = [op |-> "CID", register |-> c, value_1 |-> reg]
                /\ checks[o + 2] = [op |-> "EQUALS", register |-> c, value_1 |-> c,
                                    constant |-> class_to_id[f.argument_types[k]]]
                /\ checks[o + 3] = [op |-> "REQ", register |-> "None", value_1 |-> c]
                /\ c \notin Range(f.argument_registers)
                /\ \A j \in DOMAIN f.argument_registers \ {k} :
                      IsContractType(f.argument_types[j]) =>
                         checks[CheckOffset(f, j) + 1].register # c

\* C27: insert_runtime_checks gives a function a prefix that runs before the
\* body and holds, for the argument registers in their order, PLUS reg, reg, 0
\* for a Uint argument, CID c, reg; EQUALS c, c, class id; REQ c for an
\* argument of a contract type with a check register c of its own, and nothing
\* for an Address or a Long argument
C27_RuntimeCheckPrefix ==
    check_result.result \in {"runtime checks", "allocated", "serialized"} =>
        LET checks == fun.runtime_type_check_instructions IN
        /\ Len(checks) = CheckOffset(fun, Len(fun.argument_registers) + 1)
        /\ \A k \in DOMAIN fun.argument_registers :
              CheckedAsSpecified(fun, assembly_storage.class_to_id, k)
        /\ SubSeq(get_all_instructions(fun), 1, Len(checks)) = checks
        /\ (check_result.result = "serialized" /\ serialized # SerializeAssertionError) =>
              /\ Len(serialized.instructions) = Len(checks) + Len(fun.instructions)
              /\ \A j \in DOMAIN checks :
                    serialized.instructions[j].opcode = Opcode(checks[j].op)

\* a function with two arguments of a contract type, a Uint, a Long and an
\* Address argument is serialized
C27_Witness ==
    /\ check_result.result = "serialized"
    /\ serialized # SerializeAssertionError
    /\ Cardinality({k \in DOMAIN fun.argument_types :
                       IsContractType(fun.argument_types[k])}) >= 2
    /\ {"uint", "long", "address"} \subseteq Range(fun.argument_types)

----------------------------------------------------------------------------
(* Properties of the label check *)

ContainsDot(label) == \E k \in DOMAIN label : label[k] = "."

\* C28: check_register_labels rejects a function with a security error when a
\* register label used in it contains a dot and when two distinct Register
\* objects used in it (me included) have the same label; it accepts the
\* function otherwise
C28_LabelsChecked ==
    check_result # NoCheck =>
        LET rejected ==
                \/ \E k \in DOMAIN fun.names : ContainsDot(fun.names[k])
                \/ \E j, k \in DOMAIN fun.names : j # k /\ fun.names[j] = fun.names[k]
        IN  IF rejected THEN check_result.result = "AssemblySecurityException"
            ELSE check_result = CheckPassed

----------------------------------------------------------------------------
(* Properties of the field locations *)

\* the code point of the one character of a field name other than owner
CodePoint(name) == CASE name = "X" -> 88 [] name = "a" -> 97 [] name = "x" -> 120

\* the locations are 0..n-1 without repetition, owner when declared is at
\* location 0 and the other fields follow in ascending order of their names
LocationsInOrder(c) ==
    /\ {c.fields[name].location : name \in DOMAIN c.fields}
          = 0..(Cardinality(DOMAIN c.fields) - 1)
    /\ \A m, n \in DOMAIN c.fields : m # n => c.fields[m].location # c.fields[n].location
    /\ "owner" \in DOMAIN c.fields => c.fields["owner"].location = 0
    /\ \A m, n \in DOMAIN c.fields \ {"owner"} :
          CodePoint(m) < CodePoint(n) => c.fields[m].location < c.fields[n].location

\* what add_class asks of the owner field
OwnerFirst(c) ==
    /\ "owner" \in DOMAIN c.fields
    /\ c.fields["owner"].field_type = "address"
    /\ c.fields["owner"].location = 0

\* C29: after every add_field and every set_field_locations the field
\* locations of a class are 0..n-1 without repetition, owner when declared at
\* location 0 and the other fields after it in ascending name order; add_class
\* takes a class only with an owner field of type Address at location 0; so
\* this holds for every class in the storage before and after the allocation
C29_FieldLocations ==
    /\ (last.op = "add_field" /\ last.result = "returned") => LocationsInOrder(batch[1])
    /\ \A name \in DOMAIN assembly_storage.assembly_classes :
          /\ OwnerFirst(assembly_storage.assembly_classes[name])
          /\ LocationsInOrder(assembly_storage.assembly_classes[name])

----------------------------------------------------------------------------
(* Properties of the order of the ledger's checks *)

\* the checks in the order of the claim: whether the transaction fails the
\* check, and the reasons the ledger gives for it
ChecksInOrder(tx) ==
    <<[fails |-> Cardinality(Range(tx.consumed_serials)) # Len(tx.consumed_serials),
       reasons |-> {"serial numbers of transaction not unique"}],
      [fails |-> \E k \in DOMAIN tx.consumed_serials :
                    tx.consumed_serials[k] \in published_serial_numbers,
       reasons |-> {"at least one serial number of transaction has been observed earlier"}],
      [fails |-> tx.unique_seed \in published_unique_seeds,
       reasons |-> {"unique_seed has been observed earlier"}],
      [fails |-> tx.merkle_tree_root # MerkleRoot(merkle_tree),
       reasons |-> {"transaction root does not match current merkle tree root"}],
      [fails |-> tx.current_time # current_time,
       reasons |-> {"timestamp of transaction invalid"}],
      [fails |-> tx.class_function \notin serialized_functions,
       reasons |-> {"unknown function or function not public"}],
      [fails |-> TRUE,
       reasons |-> {"proof verification failed", "proof verification raised an error"}]>>

\* the first check of the list that the transaction fails
FirstFailing(tx) ==
    CHOOSE k \in DOMAIN ChecksInOrder(tx) :
        /\ ChecksInOrder(tx)[k].fails
        /\ \A j \in 1..(k - 1) : ~ChecksInOrder(tx)[j].fails

\* C30: the ledger reports the reason of the first failing check in the
\* order: duplicate serials inside the transaction, serials already
\* published, seed already published, root mismatch, timestamp mismatch,
\* unknown function, proof; a transaction that reuses a published serial is
\* rejected with the serial-reuse reason whatever its seed, root and timestamp
\* are, and the Merkle tree is left unchanged
C30_FirstFailingCheckReported ==
    [][RefuseStep =>
          /\ last'.reason \in ChecksInOrder(last'.tx)[FirstFailing(last'.tx)].reasons
          /\ merkle_tree' = merkle_tree
          /\ (/\ Cardinality(Range(last'.tx.consumed_serials)) = Len(last'.tx.consumed_serials)
              /\ Range(last'.tx.consumed_serials) \cap published_serial_numbers # {})
                => last'.reason =
                      "at least one serial number of transaction has been observed earlier"]_vars

\* a transaction that reuses a published serial, with a published seed, a
\* root that is not the current one and a time that is not the ledger's, is
\* refused for the reuse of the serial
C30_Witness ==
    /\ last.op = "verify"
    /\ last.reason = "at least one serial number of transaction has been observed earlier"
    /\ last.tx.unique_seed \in published_unique_seeds
    /\ last.tx.merkle_tree_root # MerkleRoot(merkle_tree)
    /\ last.tx.current_time # current_time
    /\ next_record_idx > 0

====
